---- MODULE Spec2Model ----
(***************************************************************************)
(* Build driver and test harness of the vsjs command line (src/cli.ts):    *)
(* the `build` command handler with injectFileInWrapper, runBuildProcess   *)
(* and buildWasm, and the `test` command handler, both acting on one       *)
(* project directory (build/, dist/).  An invocation runs alone on the     *)
(* project directory: a behaviour is a sequence of build invocations, or   *)
(* one test invocation, started from a project directory as earlier builds *)
(* may have left it.                                                       *)
(***************************************************************************)
EXTENDS Integers, Sequences, FiniteSets, TLC

\* Largest number of directory entries a listing of the input directory holds.
MaxFiles ==
    2

\* Largest number of `build` invocations in one behaviour.
MaxBuilds ==
    2

\* The exit statuses a check script may end with: 0..MaxExitCode.
MaxExitCode ==
    1

\* Largest number of lines of a wrapper template.
MaxLines ==
    3

----------------------------------------------------------------------------
(* Paths and source text.  A path is a sequence of tokens; a text is a     *)
(* sequence of lines; a line is either `<pre> from '<path>'[;]` or other.  *)

Last(s) ==
    s[Len(s)]

\* String.prototype.endsWith on a tokenised path.
EndsWith(p, tok) ==
    Len(p) > 0 /\ Last(p) = tok

FromLine(pre, p, semi) ==
    [k |-> "from", pre |-> pre, path |-> p, semi |-> semi]

OtherLine(t) ==
    [k |-> "other", pre |-> t, path |-> <<>>, semi |-> FALSE]

\* /^import start from '.*';?$/m tested on one line.
MatchStart(l) ==
    l.k = "from" /\ l.pre = "import start"

\* /from '.*versatus';?$/m tested on one line.
MatchVersatus(l) ==
    l.k = "from" /\ EndsWith(l.path, "versatus")

\* The least index of a non-empty set of line numbers: a non-global regex
\* matches at the first line that fits.
FirstOf(hits) ==
    CHOOSE j \in hits : \A h \in hits : j <= h

\* ReplaceStartImport as a global regex (/gm) would have it: every matching
\* line is rewritten.
ReplaceStartImport_Global(text, line) ==
    [i \in 1..Len(text) |-> IF MatchStart(text[i]) THEN line ELSE text[i]]

\* text.replace(/^import start from '.*';?$/m, line): only the first
\* matching line is rewritten; without a match the text is unchanged.
ReplaceStartImport(text, line) ==
    LET hits == {i \in 1..Len(text) : MatchStart(text[i])}
    IN  IF hits = {} THEN text ELSE [text EXCEPT ![FirstOf(hits)] = line]

\* text.replace(/from '.*versatus';?$/m, `from '${p}'`): the match starts
\* at `from`, so what precedes it on the line is kept; the replacement
\* carries no semicolon.
ReplaceVersatusImport(text, p) ==
    LET hits == {i \in 1..Len(text) : MatchVersatus(text[i])}
    IN  IF hits = {} THEN text
        ELSE [text EXCEPT ![FirstOf(hits)] = FromLine(text[FirstOf(hits)].pre, p, FALSE)]

\* lib/node-wrapper.js, the template of the node target.
NodeTemplate ==
    << FromLine("import start",
                <<"../examples/fungible-token/", "example-contract", ".js">>, TRUE),
       OtherLine("stdin"),
       OtherLine("start(parsedData)") >>

\* lib/wasm-wrapper.js, the template of the wasm target.
WasmTemplate ==
    << FromLine("import start", <<"./", "example-contract">>, TRUE),
       FromLine("import { parseInput, sendOutput }", <<"./", "versatus">>, TRUE),
       OtherLine("start(parseInput())") >>

\* lib/versatus.js, the runtime helpers of the wasm target.
HelpersText ==
    << OtherLine("helpers") >>

\* NodeWrapperContent without the substitution: the template as it is.
NodeWrapperContent_NoRewrite(tpl) ==
    tpl

\* wrapperContent of the node target (cli.ts:584-588): the contract import
\* always names ./dist/example-contract.js.
NodeWrapperContent(tpl) ==
    ReplaceStartImport(tpl,
        FromLine("import start", <<"./dist/", "example-contract", ".js">>, TRUE))

\* wrapperContent of the wasm target (cli.ts:614-622).
WasmWrapperContent(tpl, filePath, helpersPath) ==
    ReplaceVersatusImport(
        ReplaceStartImport(tpl, FromLine("import start", filePath, TRUE)),
        Append(helpersPath, ".js"))

\* What the bundler and the compiler make of their input.
Bundled(text) ==
    <<OtherLine("bundle")>> \o text

Compiled(text) ==
    <<OtherLine("wasm")>> \o text

----------------------------------------------------------------------------
(* File names of the project directory and of the package.                 *)

\* The user's contract sources at the project root.
ContractJs ==
    "example-contract.js"

ContractTs ==
    "example-contract.ts"

NodeWrapperJs ==
    "build/lib/node-wrapper.js"

WasmWrapperJs ==
    "build/lib/wasm-wrapper.js"

VersatusJs ==
    "build/lib/versatus.js"

BundleJs ==
    "build/bundle.js"

BuildWasm ==
    "build/build.wasm"

TsConfig ==
    "tsconfig.json"

\* The directory of this tool inside the project's node_modules.
InstalledMarker ==
    "node_modules/@versatus/versatus-javascript"

\* The tokenised absolute path of build/lib/versatus.js (cli.ts:611).
versatusWrapperFilePath ==
    <<"/proj/build/lib/", "versatus", ".js">>

\* argv.file of `build`: absent, a JavaScript contract or a TypeScript one.
BuildFiles ==
    { <<>>, <<"example-contract", ".js">>, <<"example-contract", ".ts">> }

Targets ==
    {"node", "wasm"}

----------------------------------------------------------------------------
VARIABLES
    isInstalledPackage, \* the tool runs from node_modules (fixed per process)
    files,              \* file system: path -> text, for the files that exist
    dirs,               \* the directories that exist among build, build/lib, dist
    b_pc,               \* where the build invocation is
    b_argv,             \* [file, target] of the build invocation
    b_content,          \* wrapperContent handed to fs.promises.writeFile
    b_log,              \* the stages started by this invocation, in order
    b_active,           \* stages whose child process or write is in flight
    b_outcome,          \* "none", "ok" or the stage that failed
    b_exit,             \* exit status of the build process, -1 while it runs
    b_promise,          \* the promise returned by runBuildProcess
    b_before,           \* files and dirs when the invocation started, and the
                        \* argv, outcome and wrapperContent of the one before it
    b_count,            \* build invocations started so far
    b_seen,             \* the context values the invocation has used so far
    b_other,            \* a second build process on the same directory:
                        \* its b_ values while the first one is followed
    t_pc,               \* where the test invocation is
    t_stats,            \* what fsp.stat(inputPath) reported
    t_target,           \* the resolved target
    t_files,            \* the directory listing of inputPath
    t_jsonFiles,        \* jsonFiles: the listing filtered on .json
    t_results,          \* state of each promise of testPromises
    t_order,            \* indices of testPromises in the order they settled
    t_summary,          \* the summary lines printed, in order
    t_spawned,          \* the check scripts spawned, in order
    t_codes,            \* exit statuses of the check scripts that ended, in order
    t_inputOps,         \* file-system operations made on inputPath, in order
    t_execs,            \* input files runTestProcess was started on, in order
    t_runs,             \* per started execution: what the module read and wrote
    t_err,              \* what the handler's catch (or an exit branch) reported
    t_exit,             \* exit status of the test process, -1 while it runs
    w_pc,               \* where the node wrapper process is
    w_sent,             \* the chunks written to the wrapper's stdin, in order
    w_in,               \* the chunks of stdin not read yet
    w_data,             \* data: the characters accumulated so far
    w_calls,            \* the calls of start made: argument and whether it threw
    w_out,              \* what the wrapper wrote to stdout
    w_err,              \* what the wrapper wrote to stderr
    w_exit,             \* exit status of the wrapper process, -1 while it runs
    f_data,             \* programAccountData of the faucet account
    f_now,              \* what new Date().getTime() returns, in milliseconds
    f_calls,            \* the calls of the faucet program made, in order
    f_pending,          \* data updates emitted and not applied to the account yet
    d_pc,               \* where the deploy invocation is
    d_secret,           \* argv.secretKey was given
    d_log,              \* the deploy steps started, in order
    d_output,           \* what the steps that ended returned, in order
    d_cid,              \* cid extracted from the publish output
    d_address,          \* programAddress extracted from the register response
    d_printed,          \* the messages printed, in order
    d_exit              \* exit status of the deploy process, -1 while it runs

fsvars == <<files, dirs>>

wvars == <<w_pc, w_sent, w_in, w_data, w_calls, w_out, w_err, w_exit>>

fvars == <<f_data, f_now, f_calls, f_pending>>

dvars == <<d_pc, d_secret, d_log, d_output, d_cid, d_address, d_printed, d_exit>>

\* The variables of the programs next to the build and test drivers.
xvars == <<wvars, fvars, dvars>>

tvars == <<t_pc, t_stats, t_target, t_files, t_jsonFiles, t_results, t_order,
           t_summary, t_spawned, t_codes, t_inputOps, t_execs, t_runs, t_err, t_exit>>

bvars == <<b_pc, b_argv, b_content, b_log, b_active, b_outcome, b_exit,
           b_promise, b_before, b_count, b_seen>>

\* The state of the build process the b_ variables follow.
BuildState ==
    [pc |-> b_pc, argv |-> b_argv, content |-> b_content, log |-> b_log,
     active |-> b_active, outcome |-> b_outcome, exit |-> b_exit,
     promise |-> b_promise, before |-> b_before, count |-> b_count,
     seen |-> b_seen]

\* isTypeScriptProject(): the type-configuration marker exists at the root.
isTypeScriptProject ==
    TsConfig \in DOMAIN files

\* WrapperTemplatePath with the installed-package marker probed at the use
\* site instead of the imported constant.
WrapperTemplatePath_Rederived(target) ==
    IF InstalledMarker \in dirs
    THEN IF target = "node"
         THEN "node_modules/@versatus/versatus-javascript/dist/lib/node-wrapper.js"
         ELSE "node_modules/@versatus/versatus-javascript/dist/lib/wasm-wrapper.js"
    ELSE IF target = "node"
         THEN "__dirname/lib/node-wrapper.js"
         ELSE "__dirname/lib/wasm-wrapper.js"

\* wrapperFilePath of injectFileInWrapper: the template of the target, under
\* node_modules when installed and under __dirname otherwise.
WrapperTemplatePath(target) ==
    IF isInstalledPackage
    THEN IF target = "node"
         THEN "node_modules/@versatus/versatus-javascript/dist/lib/node-wrapper.js"
         ELSE "node_modules/@versatus/versatus-javascript/dist/lib/wasm-wrapper.js"
    ELSE IF target = "node"
         THEN "__dirname/lib/node-wrapper.js"
         ELSE "__dirname/lib/wasm-wrapper.js"

\* versatusHelpersFilepath of injectFileInWrapper.
HelpersPath ==
    IF isInstalledPackage
    THEN "node_modules/@versatus/versatus-javascript/dist/lib/versatus.js"
    ELSE "__dirname/lib/versatus.js"

\* f with path p holding text t (created or overwritten).
WriteFile(f, p, t) ==
    [q \in DOMAIN f \cup {p} |-> IF q = p THEN t ELSE f[q]]

\* path.resolve(process.cwd(), argv.file)
ResolvedFile(file) ==
    <<"/proj/">> \o file

----------------------------------------------------------------------------
(* The build driver: the `build` command handler (cli.ts:239-332).         *)

\* The handler has nothing left to run or has called process.exit: the
\* process ends with this status.
BuildEnds(outcome, code) ==
    /\ b_pc' = "exited"
    /\ b_outcome' = outcome
    /\ b_exit' = code
    /\ b_active' = {}

\* Directory creation of injectFileInWrapper: mkdirSync(build/lib, recursive).
EnsureBuildLib(d) ==
    IF "build/lib" \in d THEN d ELSE d \cup {"build", "build/lib"}

\* The path lies in the copy of the tool under node_modules.
UsedInstalled(path) ==
    path \in {"node_modules/@versatus/versatus-javascript/dist/lib/node-wrapper.js",
              "node_modules/@versatus/versatus-javascript/dist/lib/wasm-wrapper.js"}

\* The context values injectFileInWrapper uses (cli.ts:559-606): the node
\* branch calls isTypeScriptProject(); both branches choose the template
\* path by isInstalledPackage.
InjectObservations(target) ==
    {<<"isInstalledPackage", UsedInstalled(WrapperTemplatePath(target))>>}
        \cup (IF target = "node"
              THEN {<<"isTypeScriptProject", isTypeScriptProject>>}
              ELSE {})

\* injectFileInWrapper with the substitutions made only when build/lib had
\* to be created: over an existing build/lib the template is written as is.
injectFileInWrapper_RewritesOnCreate(d, f, log) ==
    LET target == b_argv.target
        tpl    == WrapperTemplatePath(target)
        dist   == IF target = "node" THEN NodeWrapperJs ELSE WasmWrapperJs
        log1   == Append(log, "WRAP_INJECT")
    IN  /\ dirs' = EnsureBuildLib(d)
        /\ b_log' = log1
        /\ b_promise' = b_promise
        /\ b_seen' = b_seen \cup InjectObservations(target)
        /\ IF tpl \notin DOMAIN f
           THEN /\ files' = f
                /\ b_content' = <<>>
                /\ BuildEnds("inject", 0)
           ELSE IF target = "wasm" /\ HelpersPath \notin DOMAIN f
           THEN /\ files' = WriteFile(f, dist, f[tpl])
                /\ b_content' = <<>>
                /\ BuildEnds("inject", 0)
           ELSE /\ files' = IF target = "node"
                            THEN WriteFile(f, dist, f[tpl])
                            ELSE WriteFile(WriteFile(f, dist, f[tpl]),
                                           VersatusJs, f[HelpersPath])
                /\ b_content' = IF "build/lib" \in d THEN f[tpl]
                                ELSE IF target = "node"
                                THEN NodeWrapperContent(f[tpl])
                                ELSE WasmWrapperContent(f[tpl],
                                         ResolvedFile(b_argv.file),
                                         versatusWrapperFilePath)
                /\ b_pc' = "inject"
                /\ b_active' = {"WRAP_INJECT"}
                /\ b_outcome' = "none"
                /\ b_exit' = -1

\* The synchronous part of injectFileInWrapper(filePath, target), run on the
\* file system (d, f): directory creation, the copies of the template (and
\* of the helpers for wasm), the substitutions, and the start of the
\* asynchronous write.  A copy whose source is missing throws, which
\* rejects the returned promise: the handler's catch logs it.
injectFileInWrapper(d, f, log) ==
    LET target == b_argv.target
        tpl    == WrapperTemplatePath(target)
        dist   == IF target = "node" THEN NodeWrapperJs ELSE WasmWrapperJs
        log1   == Append(log, "WRAP_INJECT")
    IN  /\ dirs' = EnsureBuildLib(d)
        /\ b_log' = log1
        /\ b_promise' = b_promise
        /\ b_seen' = b_seen \cup InjectObservations(target)
        /\ IF tpl \notin DOMAIN f
           THEN /\ files' = f
                /\ b_content' = <<>>
                /\ BuildEnds("inject", 0)
           ELSE IF target = "wasm" /\ HelpersPath \notin DOMAIN f
           THEN /\ files' = WriteFile(f, dist, f[tpl])
                /\ b_content' = <<>>
                /\ BuildEnds("inject", 0)
           ELSE /\ files' = IF target = "node"
                            THEN WriteFile(f, dist, f[tpl])
                            ELSE WriteFile(WriteFile(f, dist, f[tpl]),
                                           VersatusJs, f[HelpersPath])
                /\ b_content' = IF target = "node"
                                THEN NodeWrapperContent(f[tpl])
                                ELSE WasmWrapperContent(f[tpl],
                                         ResolvedFile(b_argv.file),
                                         versatusWrapperFilePath)
                /\ b_pc' = "inject"
                /\ b_active' = {"WRAP_INJECT"}
                /\ b_outcome' = "none"
                /\ b_exit' = -1

\* `vsjs build [file] --target t`: the handler spawns sys_check.sh.
BuildStart(file, target) ==
    /\ b_pc \in {"idle", "exited"}
    /\ b_count < MaxBuilds
    /\ b_pc' = "syscheck"
    /\ b_argv' = [file |-> file, target |-> target]
    /\ b_content' = <<>>
    /\ b_log' = <<"SYSCHECK">>
    /\ b_active' = {"SYSCHECK"}
    /\ b_outcome' = "none"
    /\ b_exit' = -1
    /\ b_promise' = "none"
    /\ b_before' = [files |-> files, dirs |-> dirs,
                    argv |-> b_argv, outcome |-> b_outcome,
                    content |-> b_content]
    /\ b_count' = b_count + 1
    /\ b_seen' = {<<"isInstalledPackage", isInstalledPackage>>}
    /\ UNCHANGED <<isInstalledPackage, xvars, b_other, fsvars, tvars>>

\* StartBuildStages with the transpile decision taken from the target and
\* the project's type-configuration marker instead of the file's suffix.
StartBuildStages_ByProject ==
    IF b_argv.file = <<>>
    THEN /\ BuildEnds("nofile", 1)
         /\ UNCHANGED <<fsvars, b_content, b_log, b_promise, b_seen>>
    ELSE IF b_argv.target = "node" /\ isTypeScriptProject
    THEN /\ b_pc' = "transpile"
         /\ b_log' = Append(b_log, "TRANSPILE")
         /\ b_active' = {"TRANSPILE"}
         /\ b_seen' = b_seen \cup {<<"isInstalledPackage", isInstalledPackage>>}
         /\ UNCHANGED <<fsvars, b_content, b_outcome, b_exit, b_promise>>
    ELSE injectFileInWrapper(dirs, files, b_log)

\* The build proper, once the system check has passed (cli.ts:283-329):
\* without a contract file the handler exits 1; a path ending in .ts is
\* transpiled first; any other path goes straight to the injection.
StartBuildStages ==
    IF b_argv.file = <<>>
    THEN /\ BuildEnds("nofile", 1)
         /\ UNCHANGED <<fsvars, b_content, b_log, b_promise, b_seen>>
    ELSE IF EndsWith(ResolvedFile(b_argv.file), ".ts")
    THEN /\ b_pc' = "transpile"
         /\ b_log' = Append(b_log, "TRANSPILE")
         /\ b_active' = {"TRANSPILE"}
         /\ b_seen' = b_seen \cup {<<"isInstalledPackage", isInstalledPackage>>}
         /\ UNCHANGED <<fsvars, b_content, b_outcome, b_exit, b_promise>>
    ELSE injectFileInWrapper(dirs, files, b_log)

\* SysCheckExit without the early return on sysCheckError.
SysCheckExit_IgnoresError(sysCheckError) ==
    /\ b_pc = "syscheck"
    /\ UNCHANGED <<isInstalledPackage, xvars, b_other, tvars, b_argv, b_before, b_count>>
    /\ IF sysCheckError
       THEN /\ b_argv.file # <<>>
            /\ b_outcome' = "syscheck"
            /\ b_pc' = "transpile"
            /\ b_log' = Append(b_log, "TRANSPILE")
            /\ b_active' = {"TRANSPILE"}
            /\ UNCHANGED <<fsvars, b_content, b_exit, b_promise, b_seen>>
       ELSE StartBuildStages

\* The callback of exec(sys_check.sh) (cli.ts:267-330): an error is logged
\* and the callback returns.
SysCheckExit(sysCheckError) ==
    /\ b_pc = "syscheck"
    /\ UNCHANGED <<isInstalledPackage, xvars, b_other, tvars, b_argv, b_before, b_count>>
    /\ IF sysCheckError
       THEN /\ BuildEnds("syscheck", 0)
            /\ UNCHANGED <<fsvars, b_content, b_log, b_promise, b_seen>>
       ELSE StartBuildStages

\* What tsc emits: into build/ when installed (--outDir build), into dist/
\* in a development checkout (the project's own tsc run).
TscEmit(d, f) ==
    IF isInstalledPackage
    THEN [d |-> d \cup {"build"},
          f |-> WriteFile(f, "build/example-contract.js", <<OtherLine("contract")>>)]
    ELSE [d |-> d \cup {"dist"},
          f |-> WriteFile(f, "dist/example-contract.js", <<OtherLine("contract")>>)]

\* The callback of exec(tsc ...) (cli.ts:298-316).  tsc may emit its output
\* even when it reports errors.
TranspileExit(tscError, emitted) ==
    /\ b_pc = "transpile"
    /\ ~tscError => emitted
    /\ UNCHANGED <<isInstalledPackage, xvars, b_other, tvars, b_argv, b_before, b_count>>
    /\ LET out == IF emitted THEN TscEmit(dirs, files) ELSE [d |-> dirs, f |-> files]
       IN  IF tscError
           THEN /\ BuildEnds("transpile", 0)
                /\ dirs' = out.d
                /\ files' = out.f
                /\ UNCHANGED <<b_content, b_log, b_promise, b_seen>>
           ELSE injectFileInWrapper(out.d, out.f, b_log)

\* runBuildProcess with the compiler started next to the bundler instead of
\* from the bundler's callback.
runBuildProcess_Unsequenced(target) ==
    /\ dirs' = dirs \cup (IF ~isInstalledPackage THEN {"dist"} ELSE {})
                    \cup {"build"}
    /\ b_pc' = "bundle"
    /\ b_log' = IF target = "wasm" THEN b_log \o <<"BUNDLE", "COMPILE">>
                ELSE Append(b_log, "BUNDLE")
    /\ b_active' = IF target = "wasm" THEN {"BUNDLE", "COMPILE"} ELSE {"BUNDLE"}
    /\ b_promise' = IF target = "wasm" THEN "fulfilled" ELSE "pending"
    /\ b_seen' = b_seen \cup {<<"isInstalledPackage", isInstalledPackage>>}
    /\ UNCHANGED <<b_outcome, b_exit>>

\* runBuildProcess(target) up to the start of the bundler (cli.ts:525-547):
\* dist/ and build/ are created when missing, then buildNode or buildWasm
\* starts the bundler.  buildWasm returns as soon as exec has been called.
runBuildProcess(target) ==
    /\ dirs' = dirs \cup (IF ~isInstalledPackage THEN {"dist"} ELSE {})
                    \cup {"build"}
    /\ b_pc' = "bundle"
    /\ b_log' = Append(b_log, "BUNDLE")
    /\ b_active' = {"BUNDLE"}
    /\ b_promise' = IF target = "wasm" THEN "fulfilled" ELSE "pending"
    /\ b_seen' = b_seen \cup {<<"isInstalledPackage", isInstalledPackage>>}
    /\ UNCHANGED <<b_outcome, b_exit>>

\* InjectWriteDone with wrapperContent written to wrapperFilePath, the
\* template, instead of distWrapperFilePath.
InjectWriteDone_WritesTemplate(ok, truncated) ==
    /\ b_pc = "inject"
    /\ ok => ~truncated
    /\ UNCHANGED <<isInstalledPackage, xvars, b_other, tvars, b_argv, b_before, b_count, b_content>>
    /\ LET dist == WrapperTemplatePath(b_argv.target)
       IN  IF ok
           THEN /\ files' = WriteFile(files, dist, b_content)
                /\ runBuildProcess(b_argv.target)
           ELSE /\ files' = IF truncated THEN WriteFile(files, dist, <<>>) ELSE files
                /\ BuildEnds("inject", 0)
                /\ UNCHANGED <<dirs, b_log, b_promise, b_seen>>

\* InjectWriteDone with a rejected write swallowed: the handler's .then runs
\* whether or not the wrapper was written.
InjectWriteDone_SwallowsError(ok, truncated) ==
    /\ b_pc = "inject"
    /\ ok => ~truncated
    /\ UNCHANGED <<isInstalledPackage, xvars, b_other, tvars, b_argv, b_before, b_count, b_content>>
    /\ LET dist == IF b_argv.target = "node" THEN NodeWrapperJs ELSE WasmWrapperJs
       IN  /\ files' = IF ok THEN WriteFile(files, dist, b_content)
                       ELSE IF truncated THEN WriteFile(files, dist, <<>>) ELSE files
           /\ runBuildProcess(b_argv.target)

\* fs.promises.writeFile(distWrapperFilePath, wrapperContent) settles, and
\* the handler's .then / .catch runs (cli.ts:309-324).  A failed write
\* leaves the copied template or a truncated file.
InjectWriteDone(ok, truncated) ==
    /\ b_pc = "inject"
    /\ ok => ~truncated
    /\ UNCHANGED <<isInstalledPackage, xvars, b_other, tvars, b_argv, b_before, b_count, b_content>>
    /\ LET dist == IF b_argv.target = "node" THEN NodeWrapperJs ELSE WasmWrapperJs
       IN  IF ok
           THEN /\ files' = WriteFile(files, dist, b_content)
                /\ runBuildProcess(b_argv.target)
           ELSE /\ files' = IF truncated THEN WriteFile(files, dist, <<>>) ELSE files
                /\ BuildEnds("inject", 0)
                /\ UNCHANGED <<dirs, b_log, b_promise, b_seen>>

\* buildNode(buildPath): the bundler of the node target exits.  On success
\* the bundled module replaces build/lib/node-wrapper.js; there is no
\* compile stage for node.
BuildNodeExit(bundleError) ==
    /\ b_pc = "bundle"
    /\ b_argv.target = "node"
    /\ UNCHANGED <<isInstalledPackage, xvars, b_other, tvars, dirs, b_argv, b_before, b_count, b_seen, b_content, b_log>>
    /\ b_promise' = "fulfilled"
    /\ IF bundleError
       THEN /\ BuildEnds("bundle", 0)
            /\ UNCHANGED files
       ELSE /\ BuildEnds("ok", 0)
            /\ files' = WriteFile(files, NodeWrapperJs, Bundled(files[NodeWrapperJs]))

\* WebpackExit without the early return on webpackError.
WebpackExit_IgnoresError(webpackError) ==
    /\ b_pc = "bundle"
    /\ b_argv.target = "wasm"
    /\ UNCHANGED <<isInstalledPackage, xvars, b_other, tvars, dirs, b_argv, b_before, b_count, b_seen, b_content, b_promise>>
    /\ files' = IF webpackError THEN files
                ELSE WriteFile(files, BundleJs, Bundled(files[WasmWrapperJs]))
    /\ b_outcome' = IF webpackError THEN "bundle" ELSE b_outcome
    /\ b_pc' = "compile"
    /\ b_log' = Append(b_log, "COMPILE")
    /\ b_active' = {"COMPILE"}
    /\ UNCHANGED b_exit

\* WebpackExit without the compiler: the bundle is the last thing built.
WebpackExit_NoCompile(webpackError) ==
    /\ b_pc = "bundle"
    /\ b_argv.target = "wasm"
    /\ UNCHANGED <<isInstalledPackage, xvars, b_other, tvars, dirs, b_argv, b_before, b_count, b_seen, b_content, b_promise>>
    /\ IF webpackError
       THEN /\ BuildEnds("bundle", 0)
            /\ UNCHANGED <<files, b_log>>
       ELSE /\ files' = WriteFile(files, BundleJs, Bundled(files[WasmWrapperJs]))
            /\ BuildEnds("ok", 0)
            /\ UNCHANGED b_log

\* The callback of exec(webpack) in buildWasm (cli.ts:651-668): an error
\* returns, otherwise javy is started on build/bundle.js.
WebpackExit(webpackError) ==
    /\ b_pc = "bundle"
    /\ b_argv.target = "wasm"
    /\ UNCHANGED <<isInstalledPackage, xvars, b_other, tvars, dirs, b_argv, b_before, b_count, b_seen, b_content, b_promise>>
    /\ IF webpackError
       THEN /\ BuildEnds("bundle", 0)
            /\ UNCHANGED <<files, b_log>>
       ELSE /\ files' = WriteFile(files, BundleJs, Bundled(files[WasmWrapperJs]))
            /\ b_pc' = "compile"
            /\ b_log' = Append(b_log, "COMPILE")
            /\ b_active' = {"COMPILE"}
            /\ UNCHANGED <<b_outcome, b_exit>>

\* The callback of exec(javy compile) (cli.ts:668-687): javy writes
\* build/build.wasm when it succeeds; every branch of the callback only logs.
JavyExit(javyError) ==
    /\ b_pc = "compile"
    /\ UNCHANGED <<isInstalledPackage, xvars, b_other, tvars, dirs, b_argv, b_before, b_count, b_seen, b_content, b_log, b_promise>>
    /\ IF javyError
       THEN /\ BuildEnds("compile", 0)
            /\ UNCHANGED files
       ELSE /\ BuildEnds("ok", 0)
            /\ files' = WriteFile(files, BuildWasm, Compiled(files[BundleJs]))

----------------------------------------------------------------------------
(* The test harness: the `test` command handler (cli.ts:334-427).          *)

\* Names of the entries the input directory may hold: i.json for each i,
\* a text file, and the dot-file `.json` (which has no extension).
\* A file name is a sequence of tokens: a dot, or a dot-free word.
Tok(w) ==
    [t |-> w, n |-> 0]

EntryNames ==
    { <<[t |-> "input", n |-> i], Tok("."), Tok("json")>> : i \in 1..MaxFiles }
        \cup { <<Tok("notes"), Tok("."), Tok("txt")>>, <<Tok("."), Tok("json")>> }

\* The listings fsp.readdir may return: the entries are distinct.
Listings ==
    UNION { { l \in [1..n -> EntryNames] : \A i, j \in 1..n : l[i] = l[j] => i = j }
            : n \in 0..MaxFiles }

\* path.extname: from the last dot to the end; empty when there is no dot
\* or the only dot starts the name.
ExtName(name) ==
    LET dots == {i \in 1..Len(name) : name[i] = Tok(".")}
    IN  IF dots = {} THEN <<>>
        ELSE LET d == CHOOSE i \in dots : \A j \in dots : j <= i
             IN  IF d = 1 THEN <<>> ELSE SubSeq(name, d, Len(name))

\* IsJson as file.endsWith('.json') would have it.
IsJson_EndsWith(file) ==
    /\ Len(file) >= 2
    /\ SubSeq(file, Len(file) - 1, Len(file)) = <<Tok("."), Tok("json")>>

\* path.extname(file) === '.json'
IsJson(file) ==
    ExtName(file) = <<Tok("."), Tok("json")>>

\* files.filter((file) => path.extname(file) === '.json')  (cli.ts:376-378)
JsonFiles(listing) ==
    SelectSeq(listing, IsJson)

\* What an input file holds: JSON text or something else.
InputData ==
    {"json", "text"}

\* What the contract's start does on a parsed input: it returns a value
\* JSON.stringify renders as JSON text, returns undefined, or throws.
ContractBehaviours ==
    {"returns", "undefined", "throws"}

\* An execution that has not ended yet.
PendingRun ==
    [data |-> "none", threw |-> FALSE, stdout |-> "pending", code |-> -1]

\* NodeWrapperRun with the catch block printing the error as the result.
NodeWrapperRun_PrintsError(data, contract) ==
    [data |-> data,
     threw |-> data # "json" \/ contract = "throws",
     stdout |-> IF data = "json" /\ contract = "undefined" THEN "undefined" ELSE "json",
     code |-> 0]

\* The 'end' handler of the node wrapper (node-wrapper.js:10-19) on the
\* data read from stdin: JSON.parse, start, console.log of the result; an
\* exception of either is caught and reported on stderr, nothing is
\* written to stdout and the process ends with status 0.
NodeWrapperRun(data, contract) ==
    IF data # "json" \/ contract = "throws"
    THEN [data |-> data, threw |-> TRUE, stdout |-> "", code |-> 0]
    ELSE [data |-> data, threw |-> FALSE,
          stdout |-> IF contract = "returns" THEN "json" ELSE "undefined",
          code |-> 0]

\* The wasm module on the data read from stdin: an exception ends it with
\* a non-zero status and nothing on stdout.
WasmWrapperRun(data, contract) ==
    IF data # "json" \/ contract = "throws"
    THEN [data |-> data, threw |-> TRUE, stdout |-> "", code |-> 1]
    ELSE [data |-> data, threw |-> FALSE,
          stdout |-> IF contract = "returns" THEN "json" ELSE "undefined",
          code |-> 0]

\* The built module of the target, run on an input.
ModuleRun(target, data, contract) ==
    IF target = "node" THEN NodeWrapperRun(data, contract)
    ELSE WasmWrapperRun(data, contract)

\* runTestProcess(inputJsonPath, target): the promise is fulfilled when
\* the module has written valid structured output, rejected otherwise.
runTestProcessFulfils(out) ==
    out.stdout = "json"

\* The handler's catch block, or a branch calling process.exit(1).
TestFails(err) ==
    /\ t_pc' = "exited"
    /\ t_err' = err
    /\ t_exit' = 1

\* The handler returns normally: the process ends with status 0.
TestEnds ==
    /\ t_pc' = "exited"
    /\ t_exit' = 0
    /\ UNCHANGED t_err

\* TestStart behind a lock on build/: the handler does not start while a
\* build invocation is running.
TestStart_Locked(hasInput) ==
    /\ UNCHANGED t_codes
    /\ t_pc = "idle"
    /\ b_pc \in {"idle", "exited"}
    /\ IF hasInput
       THEN /\ t_pc' = "stat"
            /\ t_inputOps' = Append(t_inputOps, "stat")
            /\ UNCHANGED <<t_err, t_exit>>
       ELSE /\ TestFails("noInput")
            /\ UNCHANGED t_inputOps
    /\ UNCHANGED <<isInstalledPackage, xvars, b_other, fsvars, bvars, t_stats, t_target, t_files,
                   t_jsonFiles, t_results, t_order, t_summary, t_spawned, t_execs, t_runs>>

\* `vsjs test --inputJson p`: without a path the handler exits 1, otherwise
\* it calls fsp.stat(inputPath) (cli.ts:339-343).
TestStart(hasInput) ==
    /\ UNCHANGED t_codes
    /\ t_pc = "idle"
    /\ IF hasInput
       THEN /\ t_pc' = "stat"
            /\ t_inputOps' = Append(t_inputOps, "stat")
            /\ UNCHANGED <<t_err, t_exit>>
       ELSE /\ TestFails("noInput")
            /\ UNCHANGED t_inputOps
    /\ UNCHANGED <<isInstalledPackage, xvars, b_other, fsvars, bvars, t_stats, t_target, t_files,
                   t_jsonFiles, t_results, t_order, t_summary, t_spawned, t_execs, t_runs>>

\* fsp.stat settles; on success check_cli.sh is spawned (cli.ts:343-355).
StatDone(kind) ==
    /\ UNCHANGED t_codes
    /\ t_pc = "stat"
    /\ kind \in {"missing", "dir", "file", "other"}
    /\ IF kind = "missing"
       THEN /\ TestFails("stat")
            /\ UNCHANGED <<t_stats, t_spawned>>
       ELSE /\ t_stats' = kind
            /\ t_pc' = "check_cli"
            /\ t_spawned' = Append(t_spawned, "check_cli.sh")
            /\ UNCHANGED <<t_err, t_exit>>
    /\ UNCHANGED <<isInstalledPackage, xvars, b_other, fsvars, bvars, t_target, t_files, t_jsonFiles,
                   t_results, t_order, t_summary, t_inputOps, t_execs, t_runs>>

\* What follows target resolution (cli.ts:372-410): a directory is listed,
\* a file is run, anything else exits 1.
AfterTarget(target) ==
    /\ t_target' = target
    /\ IF t_stats = "dir"
       THEN /\ t_pc' = "readdir"
            /\ t_inputOps' = Append(t_inputOps, "readdir")
            /\ UNCHANGED <<t_execs, t_runs, t_err, t_exit>>
       ELSE IF t_stats = "file"
       THEN /\ t_pc' = "single"
            /\ t_execs' = Append(t_execs, <<Tok("inputPath")>>)
            /\ t_runs' = <<PendingRun>>
            /\ UNCHANGED <<t_inputOps, t_err, t_exit>>
       ELSE /\ TestFails("notFileOrDir")
            /\ UNCHANGED <<t_inputOps, t_execs, t_runs>>

\* ResolveTarget without the throw of the last branch: the handler goes
\* on with an undefined target.
ResolveTarget_NoThrow ==
    IF NodeWrapperJs \in DOMAIN files
    THEN /\ AfterTarget("node")
         /\ UNCHANGED t_spawned
    ELSE IF BuildWasm \in DOMAIN files
    THEN /\ t_target' = "wasm"
         /\ t_pc' = "check_wasm"
         /\ t_spawned' = Append(t_spawned, "check_wasm.sh")
         /\ UNCHANGED <<t_inputOps, t_execs, t_runs, t_err, t_exit>>
    ELSE /\ AfterTarget("none")
         /\ UNCHANGED t_spawned

\* ResolveTarget with check_wasm.sh spawned before build.wasm is probed.
ResolveTarget_WasmCheckEarly ==
    IF NodeWrapperJs \in DOMAIN files
    THEN /\ AfterTarget("node")
         /\ UNCHANGED t_spawned
    ELSE IF BuildWasm \in DOMAIN files
    THEN /\ t_target' = "wasm"
         /\ t_pc' = "check_wasm"
         /\ t_spawned' = Append(t_spawned, "check_wasm.sh")
         /\ UNCHANGED <<t_inputOps, t_execs, t_runs, t_err, t_exit>>
    ELSE /\ TestFails("No build artifacts found.")
         /\ t_spawned' = Append(t_spawned, "check_wasm.sh")
         /\ UNCHANGED <<t_target, t_inputOps, t_execs, t_runs>>

\* ResolveTarget probing build.wasm before node-wrapper.js.
ResolveTarget_WasmFirst ==
    IF BuildWasm \in DOMAIN files
    THEN /\ t_target' = "wasm"
         /\ t_pc' = "check_wasm"
         /\ t_spawned' = Append(t_spawned, "check_wasm.sh")
         /\ UNCHANGED <<t_inputOps, t_execs, t_runs, t_err, t_exit>>
    ELSE IF NodeWrapperJs \in DOMAIN files
    THEN /\ AfterTarget("node")
         /\ UNCHANGED t_spawned
    ELSE /\ TestFails("No build artifacts found.")
         /\ UNCHANGED <<t_target, t_spawned, t_inputOps, t_execs, t_runs>>

\* ResolveTarget with the wasm target going on without check_wasm.sh.
ResolveTarget_SkipsWasmCheck ==
    IF NodeWrapperJs \in DOMAIN files
    THEN /\ AfterTarget("node")
         /\ UNCHANGED t_spawned
    ELSE IF BuildWasm \in DOMAIN files
    THEN /\ AfterTarget("wasm")
         /\ UNCHANGED t_spawned
    ELSE /\ TestFails("No build artifacts found.")
         /\ UNCHANGED <<t_target, t_spawned, t_inputOps, t_execs, t_runs>>

\* Target resolution (cli.ts:357-370): node-wrapper.js is probed first,
\* then build.wasm, for which check_wasm.sh is spawned; with neither the
\* handler throws.
ResolveTarget ==
    IF NodeWrapperJs \in DOMAIN files
    THEN /\ AfterTarget("node")
         /\ UNCHANGED t_spawned
    ELSE IF BuildWasm \in DOMAIN files
    THEN /\ t_target' = "wasm"
         /\ t_pc' = "check_wasm"
         /\ t_spawned' = Append(t_spawned, "check_wasm.sh")
         /\ UNCHANGED <<t_inputOps, t_execs, t_runs, t_err, t_exit>>
    ELSE /\ TestFails("No build artifacts found.")
         /\ UNCHANGED <<t_target, t_spawned, t_inputOps, t_execs, t_runs>>

\* runSpawn(command, args): the returned promise rejects when the child
\* ends with a non-zero status.
runSpawnRejects(code) ==
    code # 0

\* CheckCliExit with the result of the check script not looked at.
CheckCliExit_IgnoresStatus(code) ==
    /\ t_pc = "check_cli"
    /\ t_codes' = Append(t_codes, code)
    /\ UNCHANGED <<isInstalledPackage, xvars, b_other, fsvars, bvars, t_stats, t_files, t_jsonFiles,
                   t_results, t_order, t_summary>>
    /\ ResolveTarget

\* runSpawn(check_cli.sh) settles (cli.ts:355): a rejection reaches the
\* handler's catch, otherwise the target is resolved.
CheckCliExit(code) ==
    /\ t_pc = "check_cli"
    /\ t_codes' = Append(t_codes, code)
    /\ UNCHANGED <<isInstalledPackage, xvars, b_other, fsvars, bvars, t_stats, t_files, t_jsonFiles,
                   t_results, t_order, t_summary>>
    /\ IF ~runSpawnRejects(code)
       THEN ResolveTarget
       ELSE /\ TestFails("check_cli")
            /\ UNCHANGED <<t_target, t_spawned, t_inputOps, t_execs, t_runs>>

\* runSpawn(check_wasm.sh) settles (cli.ts:367).
CheckWasmExit(code) ==
    /\ t_pc = "check_wasm"
    /\ t_codes' = Append(t_codes, code)
    /\ UNCHANGED <<isInstalledPackage, xvars, b_other, fsvars, bvars, t_stats, t_files, t_jsonFiles,
                   t_results, t_order, t_summary, t_spawned>>
    /\ IF ~runSpawnRejects(code)
       THEN AfterTarget("wasm")
       ELSE /\ TestFails("check_wasm")
            /\ UNCHANGED <<t_target, t_inputOps, t_execs, t_runs>>

\* ReaddirDone with the executions run one after the other: only the first
\* one is started before the handler waits.
ReaddirDone_OneAtATime(ok, listing) ==
    /\ UNCHANGED t_codes
    /\ t_pc = "readdir"
    /\ UNCHANGED <<isInstalledPackage, xvars, b_other, fsvars, bvars, t_stats, t_target, t_order,
                   t_summary, t_spawned, t_inputOps>>
    /\ IF ok
       THEN /\ t_files' = listing
            /\ t_jsonFiles' = JsonFiles(listing)
            /\ t_results' = [i \in 1..Len(JsonFiles(listing)) |-> "pending"]
            /\ t_execs' = t_execs \o (IF JsonFiles(listing) = <<>> THEN <<>>
                                      ELSE <<JsonFiles(listing)[1]>>)
            /\ t_runs' = [i \in 1..Len(JsonFiles(listing)) |-> PendingRun]
            /\ t_pc' = "running"
            /\ UNCHANGED <<t_err, t_exit>>
       ELSE /\ listing = <<>>
            /\ TestFails("readdir")
            /\ UNCHANGED <<t_files, t_jsonFiles, t_results, t_execs, t_runs>>

\* fsp.readdir settles; the .json entries are mapped to runTestProcess
\* calls, all started before Promise.allSettled is awaited (cli.ts:375-384).
ReaddirDone(ok, listing) ==
    /\ UNCHANGED t_codes
    /\ t_pc = "readdir"
    /\ UNCHANGED <<isInstalledPackage, xvars, b_other, fsvars, bvars, t_stats, t_target, t_order,
                   t_summary, t_spawned, t_inputOps>>
    /\ IF ok
       THEN /\ t_files' = listing
            /\ t_jsonFiles' = JsonFiles(listing)
            /\ t_results' = [i \in 1..Len(JsonFiles(listing)) |-> "pending"]
            /\ t_execs' = t_execs \o JsonFiles(listing)
            /\ t_runs' = [i \in 1..Len(JsonFiles(listing)) |-> PendingRun]
            /\ t_pc' = "running"
            /\ UNCHANGED <<t_err, t_exit>>
       ELSE /\ listing = <<>>
            /\ TestFails("readdir")
            /\ UNCHANGED <<t_files, t_jsonFiles, t_results, t_execs, t_runs>>

\* The execution started for jsonFiles[i] settles: the module has read the
\* input and ended, and the promise of runTestProcess settles on what it
\* wrote.
TestSettles(i, data, contract) ==
    /\ UNCHANGED t_codes
    /\ t_pc = "running"
    /\ i \in 1..Len(t_results)
    /\ t_results[i] = "pending"
    /\ LET out == ModuleRun(t_target, data, contract)
       IN  /\ t_runs' = [t_runs EXCEPT ![i] = out]
           /\ t_results' = [t_results EXCEPT
                  ![i] = IF runTestProcessFulfils(out) THEN "fulfilled" ELSE "rejected"]
    /\ t_order' = Append(t_order, i)
    /\ UNCHANGED <<isInstalledPackage, xvars, b_other, fsvars, bvars, t_pc, t_stats, t_target, t_files,
                   t_jsonFiles, t_summary, t_spawned, t_inputOps, t_execs, t_err, t_exit>>

\* SummaryOf with the status of line k taken from the k-th execution to
\* settle, under the file name of index k.
SummaryOf_CompletionStatus(results, jsonFiles) ==
    [index \in 1..Len(results) |->
        [file |-> jsonFiles[index],
         status |-> IF results[t_order[index]] = "fulfilled" THEN "Passed" ELSE "Failed"]]

\* SummaryOf with the lines in the order in which the executions settled.
SummaryOf_CompletionOrder(results, jsonFiles) ==
    [index \in 1..Len(results) |->
        [file |-> jsonFiles[t_order[index]],
         status |-> IF results[t_order[index]] = "fulfilled" THEN "Passed" ELSE "Failed"]]

\* results.forEach((result, index) => ...): one line per result, naming
\* jsonFiles[index] (cli.ts:390-404).
SummaryOf(results, jsonFiles) ==
    [index \in 1..Len(results) |->
        [file |-> jsonFiles[index],
         status |-> IF results[index] = "fulfilled" THEN "Passed" ELSE "Failed"]]

\* AllSettled as Promise.all would have it: the first rejection reaches the
\* handler's catch while the other executions are still running.
AllSettled_FailFast ==
    /\ UNCHANGED t_codes
    /\ t_pc = "running"
    /\ UNCHANGED <<isInstalledPackage, xvars, b_other, fsvars, bvars, t_stats, t_target, t_files,
                   t_jsonFiles, t_results, t_order, t_spawned, t_inputOps, t_execs, t_runs>>
    /\ IF \E i \in 1..Len(t_results) : t_results[i] = "rejected"
       THEN /\ TestFails("testFailed")
            /\ UNCHANGED t_summary
       ELSE /\ \A i \in 1..Len(t_results) : t_results[i] # "pending"
            /\ t_summary' = SummaryOf(t_results, t_jsonFiles)
            /\ TestEnds

\* AllSettled with the exit status taken from the results: 1 when an
\* execution was rejected.
AllSettled_ExitOnFailure ==
    /\ UNCHANGED t_codes
    /\ t_pc = "running"
    /\ \A i \in 1..Len(t_results) : t_results[i] # "pending"
    /\ t_summary' = SummaryOf(t_results, t_jsonFiles)
    /\ t_pc' = "exited"
    /\ t_exit' = IF \E i \in 1..Len(t_results) : t_results[i] = "rejected" THEN 1 ELSE 0
    /\ UNCHANGED t_err
    /\ UNCHANGED <<isInstalledPackage, xvars, b_other, fsvars, bvars, t_stats, t_target, t_files,
                   t_jsonFiles, t_results, t_order, t_spawned, t_inputOps, t_execs, t_runs>>

\* Promise.allSettled(testPromises) resolves once every promise has
\* settled; the summary is printed and the handler returns (cli.ts:384-404).
AllSettled ==
    /\ UNCHANGED t_codes
    /\ t_pc = "running"
    /\ \A i \in 1..Len(t_results) : t_results[i] # "pending"
    /\ t_summary' = SummaryOf(t_results, t_jsonFiles)
    /\ TestEnds
    /\ UNCHANGED <<isInstalledPackage, xvars, b_other, fsvars, bvars, t_stats, t_target, t_files,
                   t_jsonFiles, t_results, t_order, t_spawned, t_inputOps, t_execs, t_runs>>

\* SingleSettles with a rejected execution captured instead of thrown: the
\* handler returns normally.
SingleSettles_Captured(data, contract) ==
    /\ UNCHANGED t_codes
    /\ t_pc = "single"
    /\ t_runs' = <<ModuleRun(t_target, data, contract)>>
    /\ TestEnds
    /\ UNCHANGED <<isInstalledPackage, xvars, b_other, fsvars, bvars, t_stats, t_target, t_files,
                   t_jsonFiles, t_results, t_order, t_summary, t_spawned, t_inputOps,
                   t_execs>>

\* The single execution of file mode settles (cli.ts:405-406, 411-421).
SingleSettles(data, contract) ==
    /\ UNCHANGED t_codes
    /\ t_pc = "single"
    /\ LET out == ModuleRun(t_target, data, contract)
       IN  /\ t_runs' = <<out>>
           /\ IF runTestProcessFulfils(out) THEN TestEnds ELSE TestFails("testFailed")
    /\ UNCHANGED <<isInstalledPackage, xvars, b_other, fsvars, bvars, t_stats, t_target, t_files,
                   t_jsonFiles, t_results, t_order, t_summary, t_spawned, t_inputOps,
                   t_execs>>

----------------------------------------------------------------------------
(* The node wrapper process (node-wrapper.js).                             *)

\* The chunks stdin delivers: at most MaxChunks of them, each of one or two
\* characters.
MaxChunks ==
    2

Chars ==
    {"{", "}", "1"}

Chunks ==
    [1..1 -> Chars] \cup [1..2 -> Chars]

StdinInputs ==
    UNION { [1..n -> Chunks] : n \in 0..MaxChunks }

\* The characters of the chunks, in order.
Flatten(chunks) ==
    LET upTo[i \in 0..Len(chunks)] ==
            IF i = 0 THEN <<>> ELSE upTo[i - 1] \o chunks[i]
    IN  upTo[Len(chunks)]

\* JSON.parse(text): a run of digits is a number, {} is an object, anything
\* else (the empty text included) throws a SyntaxError.
JsonParse(text) ==
    IF text # <<>> /\ \A i \in 1..Len(text) : text[i] = "1"
    THEN [t |-> "number", v |-> (10 ^ Len(text) - 1) \div 9]
    ELSE IF text = <<"{", "}">>
    THEN [t |-> "object", v |-> 0]
    ELSE [t |-> "SyntaxError", v |-> 0]

\* The wrapper process ends once stdin has ended and its handler returned.
WrapperEnds(code) ==
    /\ w_pc' = "exited"
    /\ w_exit' = code

\* The 'readable' handler (node-wrapper.js:4-9): every chunk stdin has
\* buffered, the first n of those not read yet, is appended to data.
WrapperReadable(n) ==
    /\ w_pc = "reading"
    /\ n \in 1..Len(w_in)
    /\ w_data' = w_data \o Flatten(SubSeq(w_in, 1, n))
    /\ w_in' = SubSeq(w_in, n + 1, Len(w_in))
    /\ UNCHANGED <<isInstalledPackage, fsvars, bvars, b_other, tvars, fvars, dvars,
                   w_pc, w_sent, w_calls, w_out, w_err, w_exit>>

\* WrapperEnd without the try block: an exception of JSON.parse or of start
\* is uncaught and ends the process with status 1.
WrapperEnd_Uncaught(contract) ==
    /\ w_pc = "reading"
    /\ w_in = <<>>
    /\ LET parsed == JsonParse(w_data)
       IN  IF parsed.t = "SyntaxError"
           THEN /\ w_err' = Append(w_err, "Uncaught SyntaxError")
                /\ WrapperEnds(1)
                /\ UNCHANGED <<w_calls, w_out>>
           ELSE /\ w_calls' = Append(w_calls, [arg |-> parsed,
                                               threw |-> contract = "throws"])
                /\ IF contract = "throws"
                   THEN /\ w_err' = Append(w_err, "Uncaught Error")
                        /\ WrapperEnds(1)
                        /\ UNCHANGED w_out
                   ELSE /\ w_out' = Append(w_out, IF contract = "returns"
                                                  THEN "json" ELSE "undefined")
                        /\ WrapperEnds(0)
                        /\ UNCHANGED w_err
    /\ UNCHANGED <<isInstalledPackage, fsvars, bvars, b_other, tvars, fvars, dvars,
                   w_sent, w_in, w_data>>

\* The 'end' handler (node-wrapper.js:10-19), emitted once stdin has ended
\* and everything it held was read: JSON.parse(data), start(parsedData),
\* console.log(JSON.stringify(result)); an exception of any of them is
\* caught and reported with console.error.  Nothing is left to run after
\* it, so the process ends with status 0.
WrapperEnd(contract) ==
    /\ w_pc = "reading"
    /\ w_in = <<>>
    /\ LET parsed == JsonParse(w_data)
       IN  IF parsed.t = "SyntaxError"
           THEN /\ w_err' = Append(w_err, "Failed to parse JSON input:")
                /\ UNCHANGED <<w_calls, w_out>>
           ELSE /\ w_calls' = Append(w_calls, [arg |-> parsed,
                                               threw |-> contract = "throws"])
                /\ IF contract = "throws"
                   THEN /\ w_err' = Append(w_err, "Failed to parse JSON input:")
                        /\ UNCHANGED w_out
                   ELSE /\ w_out' = Append(w_out, IF contract = "returns"
                                                  THEN "json" ELSE "undefined")
                        /\ UNCHANGED w_err
    /\ WrapperEnds(0)
    /\ UNCHANGED <<isInstalledPackage, fsvars, bvars, b_other, tvars, fvars, dvars,
                   w_sent, w_in, w_data>>

\* No wrapper process runs.
WrapperIdle ==
    /\ w_pc = "idle"
    /\ w_sent = <<>>
    /\ w_in = <<>>
    /\ w_data = <<>>
    /\ w_calls = <<>>
    /\ w_out = <<>>
    /\ w_err = <<>>
    /\ w_exit = -1

----------------------------------------------------------------------------
(* The faucet program (cli.ts:909-1167) and the account it keeps its data  *)
(* in.  JSON values are records [t, v]: a string holds in v the value its  *)
(* text encodes, an object holds a function from its keys to values.       *)

Undefined ==
    [t |-> "undefined", v |-> 0]

\* A number.
Num(n) ==
    [t |-> "number", v |-> n]

\* An object with the keys and values of the function m.
Obj(m) ==
    [t |-> "object", v |-> m]

\* JSON.stringify(x): a string, the JSON text of x.
Stringify(x) ==
    [t |-> "string", v |-> x]

\* JSON.parse(s) on a string made by JSON.stringify.
Parse(s) ==
    s.v

\* o[k]: a key of an object gives its value; an absent key, and any
\* address taken as a key of a string or of undefined?., gives undefined.
Get(o, k) ==
    IF o.t = "object"
    THEN IF k \in DOMAIN o.v THEN o.v[k] ELSE Undefined
    ELSE Undefined

\* !x is false: undefined is falsy; objects and the strings made by
\* JSON.stringify (never empty) are truthy.
Truthy(x) ==
    x.t # "undefined"

\* { ...o, [k]: x }
With(o, k, x) ==
    Obj([q \in DOMAIN o.v \cup {k} |-> IF q = k THEN x ELSE o.v[q]])

\* {} 
EmptyObj ==
    Obj(<<>>)

\* The programs a faucet may support and the addresses that may claim.
FaucetPrograms ==
    {"P1", "P2"}

FaucetRecipients ==
    {"R1", "R2"}

\* transaction.from of the create and addProgram calls.
FaucetOwner ==
    "owner"

\* txInputs.flowAmount and txInputs.cycleTimeMin given to addProgram.
FlowAmountInput ==
    5

CycleTimeMinInput ==
    2

\* One step of the clock, in milliseconds, and the last time the clock
\* reaches.
TickMs ==
    30000

MaxTicks ==
    2

\* The calls made to the faucet program in one behaviour.
MaxCalls ==
    3

\* buildTransferInstruction and buildUpdateInstruction: the instructions
\* of an Outputs.
TransferInstruction(from, to, token, amount) ==
    [kind |-> "transfer", from |-> from, to |-> to, token |-> token,
     amount |-> amount, value |-> Undefined]

UpdateInstruction(value) ==
    [kind |-> "update", from |-> "this", to |-> "this", token |-> "this",
     amount |-> 0, value |-> value]

\* What a call of a method returns: the instructions of its Outputs, or
\* the message of the Error it throws and no instruction.
Returns(instructions) ==
    [instructions |-> instructions, error |-> "none"]

Throws(message) ==
    [instructions |-> <<>>, error |-> message]

\* The entry addProgram stores for a program (cli.ts:958-964): pipeData and
\* recipients are each stringified, and so is the entry.
ProgramEntry(flowAmount, cycleTimeMin) ==
    Stringify(Obj([k \in {"pipeData", "recipients"} |->
        IF k = "pipeData"
        THEN Stringify(Obj([j \in {"flowAmount", "cycleTimeMin"} |->
                 IF j = "flowAmount" THEN Num(flowAmount) ELSE Num(cycleTimeMin)]))
        ELSE Stringify(EmptyObj)]))

\* The value of a data update (cli.ts:955-966, 1008-1010, 1108-1114):
\* { programs: JSON.stringify(programs) }, stringified.
ProgramsUpdate(programs) ==
    Stringify(Obj([k \in {"programs"} |-> Stringify(programs)]))

\* addProgram without the early return for a program already present: the
\* entry of the program is written again.
addProgram_Overwrites(data, from, programToAdd, amountToAdd) ==
    IF amountToAdd = 0
    THEN Throws("Please specify how much your adding to the faucet pool")
    ELSE IF ~Truthy(Get(data, "programs"))
    THEN Throws("Please create the program first.")
    ELSE LET faucetPrograms == Parse(Get(data, "programs"))
             transfer == TransferInstruction(from, "this", programToAdd, amountToAdd)
         IN  Returns(<<transfer,
                       UpdateInstruction(ProgramsUpdate(
                           With(faucetPrograms, programToAdd,
                                ProgramEntry(FlowAmountInput, CycleTimeMinInput))))>>)

\* addProgram(computeInputs) (cli.ts:922-984) on the account data `data`:
\* amountToAdd is 0 when txInputs has none or a zero one.
addProgram(data, from, programToAdd, amountToAdd) ==
    IF amountToAdd = 0
    THEN Throws("Please specify how much your adding to the faucet pool")
    ELSE IF ~Truthy(Get(data, "programs"))
    THEN Throws("Please create the program first.")
    ELSE LET faucetPrograms == Parse(Get(data, "programs"))
             transfer == TransferInstruction(from, "this", programToAdd, amountToAdd)
         IN  IF Truthy(Get(faucetPrograms, programToAdd))
             THEN Returns(<<transfer>>)
             ELSE Returns(<<transfer,
                            UpdateInstruction(ProgramsUpdate(
                                With(faucetPrograms, programToAdd,
                                     ProgramEntry(FlowAmountInput, CycleTimeMinInput))))>>)

\* create(computeInputs) (cli.ts:986-1052): the create instruction, the
\* metadata update and the data update { programs: "{}" }.
create(from) ==
    Returns(<<[kind |-> "create", from |-> from, to |-> from, token |-> "this",
               amount |-> 1, value |-> Undefined],
              [kind |-> "metadata", from |-> "this", to |-> "this", token |-> "this",
               amount |-> 0, value |-> Undefined],
              UpdateInstruction(ProgramsUpdate(EmptyObj))>>)

\* x ?? d
OrDefault(x, d) ==
    IF x.t = "undefined" THEN d ELSE x

\* canClaimTokens(recipientAddress, recipients, cycleTimeMin) at the time
\* `now` (cli.ts:1145-1167).
canClaimTokens(recipientAddress, recipients, cycleTimeMin, now) ==
    LET lastClaimTime == Get(recipients, recipientAddress)
    IN  IF lastClaimTime.t = "undefined"
        THEN TRUE
        ELSE now - lastClaimTime.v >= 60 * 1000 * cycleTimeMin.v

\* faucet with the check of pipeData left out.
faucet_NoPipeDataCheck(data, to, programToSend, now) ==
    IF ~Truthy(data)
    THEN Throws("Faucet not initialized")
    ELSE IF ~Truthy(Get(data, "programs"))
    THEN Throws("No programs found. Faucet is not initialized.")
    ELSE LET programsMap == Parse(Get(data, "programs"))
         IN  IF ~Truthy(Get(programsMap, programToSend))
             THEN Throws("Desired program not found")
             ELSE LET faucetProgramDetails == Parse(Get(programsMap, programToSend))
                      faucetProgramData == Get(faucetProgramDetails, "pipeData")
                      recipients == Get(faucetProgramDetails, "recipients")
                  IN  IF ~Truthy(recipients)
                      THEN Throws("No recipients object found. Faucet is not initialized.")
                      ELSE IF ~canClaimTokens(to, recipients,
                                  OrDefault(Get(faucetProgramData, "cycleTimeMin"), Num(1)),
                                  now)
                      THEN Throws("Too soon to claim tokens.")
                      ELSE Returns(<<
                               TransferInstruction("this", to, programToSend,
                                   OrDefault(Get(faucetProgramData, "flowAmount"), Num(1)).v),
                               UpdateInstruction(ProgramsUpdate(
                                   Obj([p \in {programToSend} |->
                                       Stringify(Obj([k \in {"recipients"} |->
                                           Stringify(Obj([r \in {to} |-> Num(now)]))]))])))>>)

\* faucet(computeInputs) (cli.ts:1054-1142) on the account data `data` at
\* the time `now`.  The entry of the program is parsed; its pipeData and
\* recipients are used as stored, that is as strings, so flowAmount,
\* cycleTimeMin and the recipient's last claim time read as undefined.
faucet(data, to, programToSend, now) ==
    IF ~Truthy(data)
    THEN Throws("Faucet not initialized")
    ELSE IF ~Truthy(Get(data, "programs"))
    THEN Throws("No programs found. Faucet is not initialized.")
    ELSE LET programsMap == Parse(Get(data, "programs"))
         IN  IF ~Truthy(Get(programsMap, programToSend))
             THEN Throws("Desired program not found")
             ELSE LET faucetProgramDetails == Parse(Get(programsMap, programToSend))
                      faucetProgramData == Get(faucetProgramDetails, "pipeData")
                      recipients == Get(faucetProgramDetails, "recipients")
                  IN  IF ~Truthy(faucetProgramData)
                      THEN Throws("Faucet pipeData not found")
                      ELSE IF ~Truthy(recipients)
                      THEN Throws("No recipients object found. Faucet is not initialized.")
                      ELSE IF ~canClaimTokens(to, recipients,
                                  OrDefault(Get(faucetProgramData, "cycleTimeMin"), Num(1)),
                                  now)
                      THEN Throws("Too soon to claim tokens.")
                      ELSE Returns(<<
                               TransferInstruction("this", to, programToSend,
                                   OrDefault(Get(faucetProgramData, "flowAmount"), Num(1)).v),
                               UpdateInstruction(ProgramsUpdate(
                                   Obj([p \in {programToSend} |->
                                       Stringify(Obj([k \in {"recipients"} |->
                                           Stringify(Obj([r \in {to} |-> Num(now)]))]))])))>>)

\* A data update with action 'extend' applied to the account data: the
\* keys of the update's value replace those of the data, the other keys of
\* the data are kept.  (addProgram emits the programs it found next to
\* the new one for this reason, cli.ts:956-965.)
ApplyExtend(data, value) ==
    LET update == Parse(value)
        old    == IF data.t = "object" THEN DOMAIN data.v ELSE {}
    IN  Obj([k \in old \cup DOMAIN update.v |->
                IF k \in DOMAIN update.v THEN update.v[k] ELSE data.v[k]])

\* The calls whose data update, if they emitted one, has been applied.
AppliedCalls ==
    {k \in 1..Len(f_calls) : \A i \in 1..Len(f_pending) : f_pending[i].call # k}

\* The data updates among the instructions, as entries of f_pending.
PendingOf(result, call) ==
    LET updates == SelectSeq(result.instructions, LAMBDA ins : ins.kind = "update")
    IN  [i \in 1..Len(updates) |-> [call |-> call, value |-> updates[i].value]]

\* A transaction calls a method of the faucet program: the program reads
\* the account data as it is now and its result is recorded.
Called(method, program, to, amount, result) ==
    /\ Len(f_calls) < MaxCalls
    /\ f_calls' = Append(f_calls,
                     [method |-> method, program |-> program, to |-> to,
                      amount |-> amount, time |-> f_now, data |-> f_data, applied |-> AppliedCalls,
                      result |-> result])
    /\ f_pending' = f_pending \o PendingOf(result, Len(f_calls) + 1)
    /\ UNCHANGED <<isInstalledPackage, fsvars, bvars, b_other, tvars, wvars, dvars,
                   f_data, f_now>>

CallCreate(from) ==
    Called("create", "this", from, 0, create(from))

CallAddProgram(from, programToAdd, amountToAdd) ==
    Called("addProgram", programToAdd, from, amountToAdd,
           addProgram(f_data, from, programToAdd, amountToAdd))

CallFaucet(to, programToSend) ==
    Called("faucet", programToSend, to, 0, faucet(f_data, to, programToSend, f_now))

\* The protocol applies the oldest data update not applied yet.
ApplyUpdate ==
    /\ f_pending # <<>>
    /\ f_data' = ApplyExtend(f_data, Head(f_pending).value)
    /\ f_pending' = Tail(f_pending)
    /\ UNCHANGED <<isInstalledPackage, fsvars, bvars, b_other, tvars, wvars, dvars,
                   f_calls, f_now>>

\* Time passes.
Tick ==
    /\ f_now < MaxTicks * TickMs
    /\ f_now' = f_now + TickMs
    /\ UNCHANGED <<isInstalledPackage, fsvars, bvars, b_other, tvars, wvars, dvars,
                   f_data, f_calls, f_pending>>

\* No transaction has called the faucet program.
FaucetIdle ==
    /\ f_data = Undefined
    /\ f_now = 0
    /\ f_calls = <<>>
    /\ f_pending = <<>>

\* The account data a first call may find: none, data without programs,
\* the programs map with an entry for P1 that has no recipients, or what
\* create and addProgram of P1 leave.
InitialAccountData ==
    { Undefined,
      EmptyObj,
      Obj([k \in {"programs"} |->
          Stringify(Obj([p \in {"P1"} |->
              ProgramEntry(FlowAmountInput, CycleTimeMinInput)]))]),
      Obj([k \in {"programs"} |->
          Stringify(Obj([p \in {"P1"} |->
              Stringify(Obj([j \in {"pipeData"} |->
                  Stringify(Obj([f \in {"flowAmount", "cycleTimeMin"} |->
                      Num(1)]))]))]))]) }

----------------------------------------------------------------------------
(* The `deploy` command handler (cli.ts:428-521).                           *)

\* The words a tool's output is made of, at most MaxWords of them.
MaxWords ==
    2

\* /(bafy[a-zA-Z0-9]{44,59})/g: the letters and digits a CID has after
\* bafy.
CidMinLen ==
    44

CidMaxLen ==
    59

\* /"program_address":\s*"(0x[a-fA-F0-9]{40})"/: the hex digits of an
\* address.
AddressLen ==
    40

\* A word of the publish output: a prefix followed by n letters and digits.
PublishWords ==
    { [pre |-> "bafy", n |-> CidMinLen - 1],
      [pre |-> "bafy", n |-> CidMinLen],
      [pre |-> "bafy", n |-> CidMaxLen + 1],
      [pre |-> "Qm", n |-> CidMinLen] }

PublishOutputs ==
    UNION { [1..k -> PublishWords] : k \in 0..MaxWords }

\* A field of the register response: a quoted key and a quoted 0x value of
\* n hex digits.
ResponseFields ==
    { [pre |-> "program_address", n |-> AddressLen],
      [pre |-> "program_address", n |-> AddressLen - 1],
      [pre |-> "owner_address", n |-> AddressLen] }

RegisterResponses ==
    UNION { [1..k -> ResponseFields] : k \in 0..MaxWords }

\* What callCreate may return: an empty string or the text of a
\* response.
CreateResponses ==
    { <<>>, <<[pre |-> "response", n |-> 0]>> }

\* No CID, no address.
NoMatch ==
    [pre |-> "none", n |-> 0]

\* The last element of a non-empty set of indices.
LastOf(hits) ==
    CHOOSE i \in hits : \A j \in hits : j <= i

\* output.match(cidPattern), then the last match (cli.ts:477-485): a word
\* matches from bafy on when at least CidMinLen letters and digits follow,
\* and the match takes at most CidMaxLen of them.
ExtractCid(output) ==
    LET hits == {i \in 1..Len(output) :
                    output[i].pre = "bafy" /\ output[i].n >= CidMinLen}
    IN  IF hits = {} THEN NoMatch
        ELSE [pre |-> "bafy",
              n |-> IF output[LastOf(hits)].n > CidMaxLen THEN CidMaxLen
                    ELSE output[LastOf(hits)].n]

\* registerResponse.match(/"program_address":.../), then group 1
\* (cli.ts:490-496): the first field named program_address whose value has
\* exactly AddressLen hex digits.
ExtractAddress(response) ==
    LET hits == {i \in 1..Len(response) :
                    response[i].pre = "program_address" /\ response[i].n = AddressLen}
    IN  IF hits = {} THEN NoMatch ELSE response[FirstOf(hits)]

\* The handler's catch (cli.ts:516-518): the error is printed and the
\* handler returns, so the process ends with status 0.
DeployFails(message) ==
    /\ d_pc' = "exited"
    /\ d_printed' = Append(d_printed, message)
    /\ d_exit' = 0

\* runCommand(command) is called (cli.ts:457-475).
StartPublish(printed) ==
    /\ d_pc' = "publish"
    /\ d_log' = Append(d_log, "publish")
    /\ d_printed' = Append(printed, "Publishing program...")
    /\ UNCHANGED d_exit

\* `vsjs deploy ...` (cli.ts:432-451): with argv.secretKey and no
\* keypairPath nothing is awaited before the publish step; otherwise the
\* wallet is initialised, checked or read first.
DeployStart(secretGiven, keypairGiven) ==
    /\ d_pc = "idle"
    /\ d_secret' = secretGiven
    /\ IF secretGiven /\ ~keypairGiven
       THEN StartPublish(d_printed)
       ELSE /\ d_pc' = "wallet"
            /\ UNCHANGED <<d_log, d_printed, d_exit>>
    /\ UNCHANGED <<isInstalledPackage, fsvars, bvars, b_other, tvars, wvars, fvars,
                   d_output, d_cid, d_address>>

\* initializeWallet, checkWallet or getSecretKeyFromKeyPairFile settles
\* (cli.ts:437-451).
WalletDone(ok) ==
    /\ d_pc = "wallet"
    /\ IF ok
       THEN StartPublish(d_printed)
       ELSE /\ DeployFails("Deployment error")
            /\ UNCHANGED d_log
    /\ UNCHANGED <<isInstalledPackage, fsvars, bvars, b_other, tvars, wvars, fvars,
                   d_secret, d_output, d_cid, d_address>>

\* PublishDone with the register step started whether or not a CID was
\* found in the output.
PublishDone_NoCidCheck(ok, output) ==
    /\ d_pc = "publish"
    /\ output \in PublishOutputs
    /\ d_output' = Append(d_output, [step |-> "publish", ok |-> ok, out |-> output])
    /\ IF ~ok
       THEN /\ DeployFails("Deployment error")
            /\ UNCHANGED <<d_log, d_cid>>
       ELSE /\ d_cid' = ExtractCid(output)
            /\ d_pc' = "register"
            /\ d_log' = Append(d_log, "register")
            /\ d_printed' = d_printed \o <<"Program published.", "Registering program...">>
            /\ UNCHANGED d_exit
    /\ UNCHANGED <<isInstalledPackage, fsvars, bvars, b_other, tvars, wvars, fvars,
                   d_secret, d_address>>

\* await runCommand(command) settles (cli.ts:475-488): a rejection reaches
\* the catch; otherwise the CID is taken from the output, and without one
\* the handler throws; with one registerProgram is called.
PublishDone(ok, output) ==
    /\ d_pc = "publish"
    /\ output \in PublishOutputs
    /\ d_output' = Append(d_output, [step |-> "publish", ok |-> ok, out |-> output])
    /\ IF ~ok \/ ExtractCid(output) = NoMatch
       THEN /\ DeployFails("Deployment error")
            /\ UNCHANGED <<d_log, d_cid>>
       ELSE /\ d_cid' = ExtractCid(output)
            /\ d_pc' = "register"
            /\ d_log' = Append(d_log, "register")
            /\ d_printed' = d_printed \o <<"Program published.", "Registering program...">>
            /\ UNCHANGED d_exit
    /\ UNCHANGED <<isInstalledPackage, fsvars, bvars, b_other, tvars, wvars, fvars,
                   d_secret, d_address>>

\* await registerProgram(cid, secretKey) settles (cli.ts:488-507): a
\* rejection reaches the catch; otherwise the program address is taken
\* from the response, and without one the handler throws; with one
\* callCreate is called.
RegisterDone(ok, response) ==
    /\ d_pc = "register"
    /\ response \in RegisterResponses
    /\ d_output' = Append(d_output, [step |-> "register", ok |-> ok, out |-> response])
    /\ IF ~ok \/ ExtractAddress(response) = NoMatch
       THEN /\ DeployFails("Deployment error")
            /\ UNCHANGED <<d_log, d_address>>
       ELSE /\ d_address' = ExtractAddress(response)
            /\ d_pc' = "create"
            /\ d_log' = Append(d_log, "create")
            /\ d_printed' = d_printed \o <<"Program registered.", "Creating program...">>
            /\ UNCHANGED d_exit
    /\ UNCHANGED <<isInstalledPackage, fsvars, bvars, b_other, tvars, wvars, fvars,
                   d_secret, d_cid>>

\* await callCreate(...) settles (cli.ts:500-518): a rejection reaches the
\* catch; a response that is not empty prints the success message.
CreateDone(ok, response) ==
    /\ d_pc = "create"
    /\ response \in CreateResponses
    /\ d_output' = Append(d_output, [step |-> "create", ok |-> ok, out |-> response])
    /\ IF ~ok
       THEN DeployFails("Deployment error")
       ELSE /\ d_pc' = "exited"
            /\ d_exit' = 0
            /\ d_printed' = IF response # <<>>
                            THEN Append(d_printed, "Program created successfully.")
                            ELSE d_printed
    /\ UNCHANGED <<isInstalledPackage, fsvars, bvars, b_other, tvars, wvars, fvars,
                   d_secret, d_log, d_cid, d_address>>

\* No deploy invocation has started.
DeployIdle ==
    /\ d_pc = "idle"
    /\ d_secret = FALSE
    /\ d_log = <<>>
    /\ d_output = <<>>
    /\ d_cid = NoMatch
    /\ d_address = NoMatch
    /\ d_printed = <<>>
    /\ d_exit = -1

----------------------------------------------------------------------------
(* Initial states and the specification.                                   *)

\* The package's own files: the wrapper templates and the helpers, or none
\* of them when the package is incomplete.
PackageFiles(complete) ==
    IF complete
    THEN [p \in {WrapperTemplatePath("node"), WrapperTemplatePath("wasm"), HelpersPath}
            |-> IF p = WrapperTemplatePath("node") THEN NodeTemplate
                ELSE IF p = WrapperTemplatePath("wasm") THEN WasmTemplate
                ELSE HelpersText]
    ELSE <<>>

\* The user's contract sources, next to the files f.
ProjectSources(f) ==
    WriteFile(WriteFile(f, ContractJs, <<OtherLine("contract source")>>),
              ContractTs, <<OtherLine("typed contract source")>>)

\* What an earlier successful build of the given target left in build/.
LeftBy(f, target) ==
    IF target = "node"
    THEN WriteFile(f, NodeWrapperJs, Bundled(NodeWrapperContent(NodeTemplate)))
    ELSE LET w == WasmWrapperContent(WasmTemplate,
                      ResolvedFile(<<"example-contract", ".js">>),
                      versatusWrapperFilePath)
         IN  WriteFile(WriteFile(WriteFile(WriteFile(f,
                 WasmWrapperJs, w), VersatusJs, HelpersText),
                 BundleJs, Bundled(w)), BuildWasm, Compiled(Bundled(w)))

\* The project directory and the build and test drivers before a command
\* runs.
CliInit ==
    /\ isInstalledPackage \in BOOLEAN
    /\ \E complete, ts, hadNode, hadWasm \in BOOLEAN :
          LET f0 == ProjectSources(PackageFiles(complete))
              f1 == IF ts THEN WriteFile(f0, TsConfig, <<OtherLine("tsconfig")>>) ELSE f0
              f2 == IF hadNode THEN LeftBy(f1, "node") ELSE f1
              f3 == IF hadWasm THEN LeftBy(f2, "wasm") ELSE f2
          IN  /\ dirs = (IF hadNode \/ hadWasm THEN {"build", "build/lib"} ELSE {})
                        \cup (IF isInstalledPackage THEN {InstalledMarker} ELSE {})
              /\ files = f3
    /\ b_pc = "idle"
    /\ b_argv = [file |-> <<>>, target |-> "node"]
    /\ b_content = <<>>
    /\ b_log = <<>>
    /\ b_active = {}
    /\ b_outcome = "none"
    /\ b_exit = -1
    /\ b_promise = "none"
    /\ b_before = [files |-> files, dirs |-> dirs,
                   argv |-> b_argv, outcome |-> "none", content |-> <<>>]
    /\ b_count = 0
    /\ b_seen = {}
    /\ b_other = BuildState
    /\ t_pc = "idle"
    /\ t_stats = "none"
    /\ t_target = "none"
    /\ t_files = <<>>
    /\ t_jsonFiles = <<>>
    /\ t_results = <<>>
    /\ t_order = <<>>
    /\ t_summary = <<>>
    /\ t_spawned = <<>>
    /\ t_codes = <<>>
    /\ t_inputOps = <<>>
    /\ t_execs = <<>>
    /\ t_runs = <<>>
    /\ t_err = "none"
    /\ t_exit = -1

\* Neither the node wrapper, nor the faucet program, nor a deploy
\* invocation runs.
ProgramsIdle ==
    /\ WrapperIdle
    /\ FaucetIdle
    /\ DeployIdle

Init ==
    /\ CliInit
    /\ ProgramsIdle

\* A project directory that is not built, in a development checkout, with
\* no build or test invocation.
CliIdle ==
    /\ CliInit
    /\ ~isInstalledPackage
    /\ dirs = {}
    /\ TsConfig \notin DOMAIN files
    /\ WrapperTemplatePath("node") \in DOMAIN files

\* The wrapper process after its top-level code ran (node-wrapper.js:1-3):
\* data is empty, and stdin will deliver any input of StdinInputs.
WrapperInit ==
    /\ CliIdle /\ FaucetIdle /\ DeployIdle
    /\ w_pc = "reading"
    /\ w_sent \in StdinInputs
    /\ w_in = w_sent
    /\ w_data = <<>>
    /\ w_calls = <<>>
    /\ w_out = <<>>
    /\ w_err = <<>>
    /\ w_exit = -1

\* The faucet program before its first call, on any account data of
\* InitialAccountData.
FaucetInit ==
    /\ CliIdle /\ WrapperIdle /\ DeployIdle
    /\ f_data \in InitialAccountData
    /\ f_now = 0
    /\ f_calls = <<>>
    /\ f_pending = <<>>

\* Before a deploy invocation.
DeployInit ==
    /\ CliIdle /\ WrapperIdle /\ FaucetIdle /\ DeployIdle

\* The lines a wrapper template may be made of: a contract import, a
\* helpers import, a contract import from a path ending in versatus, and
\* a line that is no import.
TemplateLines ==
    { FromLine("import start", <<"./", "example-contract">>, TRUE),
      FromLine("import { parseInput, sendOutput }", <<"./", "versatus">>, TRUE),
      FromLine("import start", <<"./", "versatus">>, FALSE),
      OtherLine("code") }

\* The wrapper templates of at most MaxLines lines.
Templates ==
    UNION { [1..n -> TemplateLines] : n \in 0..MaxLines }

\* A project directory without build/, and a package whose wrapper
\* templates hold any text of Templates.
TemplatesInit ==
    /\ isInstalledPackage \in BOOLEAN
    /\ dirs = IF isInstalledPackage THEN {InstalledMarker} ELSE {}
    /\ \E tpl \in Templates :
          files = ProjectSources(
                     [p \in {WrapperTemplatePath("node"), WrapperTemplatePath("wasm"),
                              HelpersPath}
                        |-> IF p = HelpersPath THEN HelpersText ELSE tpl])
    /\ b_pc = "idle"
    /\ b_argv = [file |-> <<>>, target |-> "node"]
    /\ b_content = <<>>
    /\ b_log = <<>>
    /\ b_active = {}
    /\ b_outcome = "none"
    /\ b_exit = -1
    /\ b_promise = "none"
    /\ b_before = [files |-> files, dirs |-> dirs,
                   argv |-> b_argv, outcome |-> "none", content |-> <<>>]
    /\ b_count = 0
    /\ b_seen = {}
    /\ b_other = BuildState
    /\ t_pc = "idle"
    /\ t_stats = "none"
    /\ t_target = "none"
    /\ t_files = <<>>
    /\ t_jsonFiles = <<>>
    /\ t_results = <<>>
    /\ t_order = <<>>
    /\ t_summary = <<>>
    /\ t_spawned = <<>>
    /\ t_codes = <<>>
    /\ t_inputOps = <<>>
    /\ t_execs = <<>>
    /\ t_runs = <<>>
    /\ t_err = "none"
    /\ t_exit = -1
    /\ ProgramsIdle

vars ==
    <<isInstalledPackage, fsvars, bvars, b_other, tvars, wvars, fvars, dvars>>

\* A build invocation is started while no test invocation uses the
\* project directory.
BuildInvocation ==
    /\ t_pc = "idle"
    /\ \E file \in BuildFiles, target \in Targets : BuildStart(file, target)

\* A test invocation is started on a project directory no build
\* invocation of this behaviour has used.
TestInvocation ==
    /\ b_pc = "idle"
    /\ \E hasInput \in BOOLEAN : TestStart(hasInput)

Next ==
    \/ BuildInvocation
    \/ \E sysCheckError \in BOOLEAN : SysCheckExit(sysCheckError)
    \/ \E tscError, emitted \in BOOLEAN : TranspileExit(tscError, emitted)
    \/ \E ok, truncated \in BOOLEAN : InjectWriteDone(ok, truncated)
    \/ \E bundleError \in BOOLEAN : BuildNodeExit(bundleError)
    \/ \E webpackError \in BOOLEAN : WebpackExit(webpackError)
    \/ \E javyError \in BOOLEAN : JavyExit(javyError)
    \/ TestInvocation
    \/ \E kind \in {"missing", "dir", "file", "other"} : StatDone(kind)
    \/ \E code \in 0..MaxExitCode : CheckCliExit(code)
    \/ \E code \in 0..MaxExitCode : CheckWasmExit(code)
    \/ \E ok \in BOOLEAN, listing \in Listings : ReaddirDone(ok, listing)
    \/ \E i \in 1..MaxFiles, data \in InputData, contract \in ContractBehaviours :
          TestSettles(i, data, contract)
    \/ AllSettled
    \/ \E data \in InputData, contract \in ContractBehaviours :
          SingleSettles(data, contract)

Spec ==
    Init /\ [][Next]_vars

\* The first build invocation of a behaviour.
FirstBuild ==
    /\ b_count = 0
    /\ BuildInvocation

\* One build invocation, on any wrapper template.
TemplatesNext ==
    \/ FirstBuild
    \/ \E sysCheckError \in BOOLEAN : SysCheckExit(sysCheckError)
    \/ \E tscError, emitted \in BOOLEAN : TranspileExit(tscError, emitted)
    \/ \E ok, truncated \in BOOLEAN : InjectWriteDone(ok, truncated)
    \/ \E bundleError \in BOOLEAN : BuildNodeExit(bundleError)
    \/ \E webpackError \in BOOLEAN : WebpackExit(webpackError)
    \/ \E javyError \in BOOLEAN : JavyExit(javyError)

SpecTemplates ==
    TemplatesInit /\ [][TemplatesNext]_vars

\* The files of the tool as a dependency manager puts them under
\* node_modules.
InstalledFiles ==
    [p \in {"node_modules/@versatus/versatus-javascript/dist/lib/node-wrapper.js",
             "node_modules/@versatus/versatus-javascript/dist/lib/wasm-wrapper.js",
             "node_modules/@versatus/versatus-javascript/dist/lib/versatus.js"}
        |-> IF p = "node_modules/@versatus/versatus-javascript/dist/lib/node-wrapper.js"
            THEN NodeTemplate
            ELSE IF p = "node_modules/@versatus/versatus-javascript/dist/lib/wasm-wrapper.js"
            THEN WasmTemplate
            ELSE HelpersText]

\* Something outside the tool creates or removes one of the markers the
\* context is resolved from, while a build invocation is running: the
\* type-configuration file, or the tool's directory under node_modules
\* with the files in it.
MarkerChange(marker) ==
    /\ b_pc \notin {"idle", "exited"}
    /\ IF marker = "tsconfig"
       THEN /\ files' = IF TsConfig \in DOMAIN files
                        THEN [p \in DOMAIN files \ {TsConfig} |-> files[p]]
                        ELSE WriteFile(files, TsConfig, <<OtherLine("tsconfig")>>)
            /\ UNCHANGED dirs
       ELSE IF InstalledMarker \in dirs
       THEN /\ dirs' = dirs \ {InstalledMarker}
            /\ files' = [p \in DOMAIN files \ DOMAIN InstalledFiles |-> files[p]]
       ELSE /\ dirs' = dirs \cup {InstalledMarker}
            /\ files' = [p \in DOMAIN files \cup DOMAIN InstalledFiles |->
                            IF p \in DOMAIN InstalledFiles THEN InstalledFiles[p]
                            ELSE files[p]]
    /\ UNCHANGED <<isInstalledPackage, xvars, b_other, bvars, tvars>>

\* One build invocation, with the markers changing under it.
MarkersNext ==
    \/ FirstBuild
    \/ \E sysCheckError \in BOOLEAN : SysCheckExit(sysCheckError)
    \/ \E tscError, emitted \in BOOLEAN : TranspileExit(tscError, emitted)
    \/ \E ok, truncated \in BOOLEAN : InjectWriteDone(ok, truncated)
    \/ \E bundleError \in BOOLEAN : BuildNodeExit(bundleError)
    \/ \E webpackError \in BOOLEAN : WebpackExit(webpackError)
    \/ \E javyError \in BOOLEAN : JavyExit(javyError)
    \/ \E marker \in {"tsconfig", "installed"} : MarkerChange(marker)

SpecMarkers ==
    Init /\ [][MarkersNext]_vars

\* The operating system lets the other build process run: from here on the
\* b_ variables follow it, and b_other keeps the one followed so far.
SwitchBuild ==
    /\ b_pc # "idle" \/ b_other.pc # "idle"
    /\ b_pc' = b_other.pc
    /\ b_argv' = b_other.argv
    /\ b_content' = b_other.content
    /\ b_log' = b_other.log
    /\ b_active' = b_other.active
    /\ b_outcome' = b_other.outcome
    /\ b_exit' = b_other.exit
    /\ b_promise' = b_other.promise
    /\ b_before' = b_other.before
    /\ b_count' = b_other.count
    /\ b_seen' = b_other.seen
    /\ b_other' = BuildState
    /\ UNCHANGED <<isInstalledPackage, xvars, fsvars, tvars>>

\* A build invocation is started, whatever else runs on the project
\* directory: each of the two build processes runs one invocation.
OverlapBuild ==
    /\ b_count = 0
    /\ \E file \in BuildFiles, target \in Targets : BuildStart(file, target)

\* A test invocation is started, whatever else runs on the project
\* directory.
OverlapTest ==
    \E hasInput \in BOOLEAN : TestStart(hasInput)

\* Two build invocations and a test invocation of a single input file on
\* one project directory, their steps interleaved in any order.
OverlapNext ==
    \/ OverlapBuild
    \/ SwitchBuild
    \/ \E sysCheckError \in BOOLEAN : SysCheckExit(sysCheckError)
    \/ \E tscError, emitted \in BOOLEAN : TranspileExit(tscError, emitted)
    \/ \E ok, truncated \in BOOLEAN : InjectWriteDone(ok, truncated)
    \/ \E bundleError \in BOOLEAN : BuildNodeExit(bundleError)
    \/ \E webpackError \in BOOLEAN : WebpackExit(webpackError)
    \/ \E javyError \in BOOLEAN : JavyExit(javyError)
    \/ OverlapTest
    \/ \E kind \in {"missing", "file"} : StatDone(kind)
    \/ \E code \in 0..MaxExitCode : CheckCliExit(code)
    \/ \E code \in 0..MaxExitCode : CheckWasmExit(code)
    \/ \E data \in InputData, contract \in ContractBehaviours :
          SingleSettles(data, contract)

\* A project directory that has not been built yet, with a complete copy
\* of the tool.
OverlapInit ==
    /\ Init
    /\ "build" \notin dirs
    /\ {WrapperTemplatePath("node"), WrapperTemplatePath("wasm"), HelpersPath}
          \subseteq DOMAIN files

SpecOverlap ==
    OverlapInit /\ [][OverlapNext]_vars

\* One node wrapper process, on any input of StdinInputs.
WrapperNext ==
    \/ \E n \in 1..MaxChunks : WrapperReadable(n)
    \/ \E contract \in ContractBehaviours : WrapperEnd(contract)

SpecWrapper ==
    WrapperInit /\ [][WrapperNext]_vars

\* Transactions calling the faucet program, the protocol applying the
\* data updates they emit, and time passing.
FaucetNext ==
    \/ CallCreate(FaucetOwner)
    \/ \E program \in FaucetPrograms, amountToAdd \in 0..1 :
          CallAddProgram(FaucetOwner, program, amountToAdd)
    \/ \E to \in FaucetRecipients, program \in FaucetPrograms : CallFaucet(to, program)
    \/ ApplyUpdate
    \/ Tick

SpecFaucet ==
    FaucetInit /\ [][FaucetNext]_vars

\* One deploy invocation.
DeployNext ==
    \/ \E secretGiven, keypairGiven \in BOOLEAN : DeployStart(secretGiven, keypairGiven)
    \/ \E ok \in BOOLEAN : WalletDone(ok)
    \/ \E ok \in BOOLEAN, output \in PublishOutputs : PublishDone(ok, output)
    \/ \E ok \in BOOLEAN, response \in RegisterResponses : RegisterDone(ok, response)
    \/ \E ok \in BOOLEAN, response \in CreateResponses : CreateDone(ok, response)

SpecDeploy ==
    DeployInit /\ [][DeployNext]_vars

----------------------------------------------------------------------------
(* Properties of the build driver.                                         *)

\* Position of a stage in SYSCHECK, TRANSPILE, WRAP_INJECT, BUNDLE, COMPILE.
StageRank(stage) ==
    CASE stage = "SYSCHECK" -> 1
      [] stage = "TRANSPILE" -> 2
      [] stage = "WRAP_INJECT" -> 3
      [] stage = "BUNDLE" -> 4
      [] stage = "COMPILE" -> 5

Started(stage) ==
    \E i \in 1..Len(b_log) : b_log[i] = stage

BuildFailed ==
    b_pc = "exited" /\ b_outcome \in {"syscheck", "transpile", "inject", "bundle", "compile"}

\* C1: the stages of a build invocation start in the order SYSCHECK,
\* TRANSPILE, WRAP_INJECT, BUNDLE, COMPILE, beginning with SYSCHECK, and at
\* most one stage is in flight at any time, namely the one started last: no
\* stage starts while the process or write of an earlier one is pending.
C1_StagesSequential ==
    /\ \A i \in 1..Len(b_log) - 1 : StageRank(b_log[i]) < StageRank(b_log[i + 1])
    /\ b_log # <<>> => b_log[1] = "SYSCHECK"
    /\ Cardinality(b_active) <= 1
    /\ \A stage \in b_active : stage = Last(b_log)

\* A wasm build of a TypeScript contract has run all five stages.
C1_Witness ==
    /\ b_pc = "exited"
    /\ b_outcome = "ok"
    /\ b_argv.target = "wasm"
    /\ b_log = <<"SYSCHECK", "TRANSPILE", "WRAP_INJECT", "BUNDLE", "COMPILE">>

\* C2: when the system check of a build fails, no later stage is started
\* and the files and directories are what they were when the invocation
\* started.
C2_SysCheckFailureTouchesNothing ==
    b_outcome = "syscheck" =>
        /\ b_log = <<"SYSCHECK">>
        /\ b_active = {}
        /\ files = b_before.files
        /\ dirs = b_before.dirs

\* The system check failed for a build that names a contract file.
C2_Witness ==
    /\ b_pc = "exited"
    /\ b_outcome = "syscheck"
    /\ b_argv.file # <<>>

\* C3: a failed stage ends the invocation: after a transpiler error the
\* injection is never started, after a rejected injection the bundler is
\* never started, after a bundler error the compiler is never started.
C3_FailedStageStopsPipeline ==
    /\ b_outcome = "transpile" =>
          ~Started("WRAP_INJECT") /\ ~Started("BUNDLE") /\ ~Started("COMPILE")
    /\ b_outcome = "inject" => ~Started("BUNDLE") /\ ~Started("COMPILE")
    /\ b_outcome = "bundle" => ~Started("COMPILE")
    /\ b_outcome \in {"transpile", "inject", "bundle"} =>
          b_pc = "exited" /\ b_active = {}

\* The bundler of a wasm build failed.
C3_Witness ==
    /\ b_outcome = "bundle"
    /\ b_argv.target = "wasm"
    /\ Started("BUNDLE")

\* Presence and content of the file the test harness probes for a target.
Artifact(f, target) ==
    LET p == IF target = "node" THEN NodeWrapperJs ELSE BuildWasm
    IN  IF p \in DOMAIN f THEN <<TRUE, f[p]>> ELSE <<FALSE, <<>>>>

\* C4: after a build invocation in which a stage failed, the artifact file
\* of its target is present or absent, and holds, what it did when the
\* invocation started.
C4_FailedBuildKeepsArtifact ==
    BuildFailed =>
        Artifact(files, b_argv.target) = Artifact(b_before.files, b_argv.target)

\* C5 as stated: the transpile stage is inserted exactly when the target
\* is node and the project has the type-configuration marker.
C5_TranspileIffNodeAndTypedProject ==
    Len(b_log) >= 2 =>
        (b_log[2] = "TRANSPILE" <=> (b_argv.target = "node" /\ isTypeScriptProject))

\* C5: the transpile stage is inserted before the injection exactly when
\* the resolved contract path ends in .ts, for either target and with or
\* without the type-configuration marker; otherwise the injection follows
\* the system check directly.
C5_TranspileIffTsFile ==
    Len(b_log) >= 2 =>
        /\ b_log[2] \in {"TRANSPILE", "WRAP_INJECT"}
        /\ b_log[2] = "TRANSPILE" <=> EndsWith(ResolvedFile(b_argv.file), ".ts")
        /\ Len(b_log) >= 3 /\ b_log[2] = "TRANSPILE" => b_log[3] = "WRAP_INJECT"

\* A wasm build in a project without the marker transpiled a .ts contract
\* and went on to the injection.
C5_Witness ==
    /\ b_argv.target = "wasm"
    /\ ~isTypeScriptProject
    /\ Len(b_log) >= 3
    /\ b_log[2] = "TRANSPILE"
    /\ b_log[3] = "WRAP_INJECT"

----------------------------------------------------------------------------
(* Properties of the test harness.                                         *)

NoArtifact ==
    NodeWrapperJs \notin DOMAIN files /\ BuildWasm \notin DOMAIN files

NoArtifactError ==
    t_err = "No build artifacts found."

Did(ops, op) ==
    \E i \in 1..Len(ops) : ops[i] = op

\* C6 as stated: with neither artifact, a test invocation that fails with
\* the no-artifact error has executed nothing and has made no file-system
\* operation on the input path.
C6_NoArtifactNoInputAccess ==
    NoArtifact /\ NoArtifactError =>
        /\ t_execs = <<>>
        /\ t_inputOps = <<>>

\* C6: with neither artifact, a test invocation never executes the artifact
\* and never lists the input directory, and it ends with a non-zero status;
\* the input path is stat-ed once, before the probing, and the no-artifact
\* error is the one reported exactly when that stat and check_cli.sh
\* succeeded.
C6_NoArtifactNoExecution ==
    NoArtifact =>
        /\ t_execs = <<>>
        /\ ~Did(t_inputOps, "readdir")
        /\ t_inputOps \in {<<>>, <<"stat">>}
        /\ t_pc = "exited" =>
              /\ t_exit = 1
              /\ NoArtifactError <=> (t_stats # "none" /\ t_err # "check_cli")
        /\ NoArtifactError => t_inputOps = <<"stat">>

\* The no-artifact error was reported for an input path that is a directory.
C6_Witness ==
    /\ NoArtifact
    /\ NoArtifactError
    /\ t_stats = "dir"
    /\ t_exit = 1

\* C7 as stated: the no-artifact error is raised without any check script
\* having been spawned.
C7_NoArtifactBeforeAnyCheck ==
    NoArtifactError => t_spawned = <<>>

\* C7: check_cli.sh is spawned before the artifacts are probed, so the
\* no-artifact error is raised after check_cli.sh alone has run;
\* check_wasm.sh is spawned only after the probing resolved to wasm.
C7_OnlyCliCheckBeforeProbe ==
    /\ NoArtifactError => t_spawned = <<"check_cli.sh">>
    /\ t_target # "none" => t_spawned # <<>> /\ t_spawned[1] = "check_cli.sh"
    /\ Did(t_spawned, "check_wasm.sh") =>
          t_target = "wasm" /\ t_spawned = <<"check_cli.sh", "check_wasm.sh">>

\* The no-artifact error was reported.
C7_Witness ==
    /\ NoArtifactError
    /\ t_pc = "exited"
    /\ t_spawned = <<"check_cli.sh">>

\* C8: a resolved target is node when node-wrapper.js exists, with or
\* without build.wasm, and wasm when only build.wasm exists; past the
\* probing a target has been resolved.
C8_TargetResolution ==
    /\ t_target = "node" <=> (t_target # "none" /\ NodeWrapperJs \in DOMAIN files)
    /\ t_target = "wasm" <=>
          (t_target # "none" /\ NodeWrapperJs \notin DOMAIN files
                             /\ BuildWasm \in DOMAIN files)
    /\ t_pc \in {"check_wasm", "readdir", "running", "single"} => t_target # "none"
    /\ t_execs # <<>> => t_target # "none"

\* Both artifacts exist and node was selected.
C8_Witness ==
    /\ NodeWrapperJs \in DOMAIN files
    /\ BuildWasm \in DOMAIN files
    /\ t_target = "node"
    /\ t_execs # <<>>

\* The summary of directory mode has been printed.
SummaryPrinted ==
    t_pc = "exited" /\ t_exit = 0 /\ t_stats = "dir"

\* C9: the summary holds one line per .json entry of the listing; line i
\* names the file execution i was started on and says Failed exactly when
\* that execution rejected and Passed exactly when it fulfilled, whatever
\* the order in which the executions settled.  Nothing is printed before.
C9_SummaryCountAndTags ==
    /\ SummaryPrinted =>
          /\ Len(t_summary) = Cardinality({k \in 1..Len(t_files) : IsJson(t_files[k])})
          /\ Len(t_summary) = Len(t_results)
          /\ Len(t_order) = Len(t_results)
          /\ \A i \in 1..Len(t_summary) :
                /\ t_summary[i].file = t_execs[i]
                /\ t_summary[i].status = "Failed" <=> t_results[i] = "rejected"
                /\ t_summary[i].status = "Passed" <=> t_results[i] = "fulfilled"
    /\ ~SummaryPrinted => t_summary = <<>>

\* Two inputs: the second settled first and passed, the first failed.
C9_Witness ==
    /\ SummaryPrinted
    /\ Len(t_summary) = 2
    /\ t_order = <<2, 1>>
    /\ t_results = <<"rejected", "fulfilled">>

\* Position of an entry in the directory listing.
PosIn(listing, name) ==
    CHOOSE k \in 1..Len(listing) : listing[k] = name

\* C10: the lines of the summary name the .json files in the order in
\* which the directory listing returned them, whatever the order in which
\* the executions settled.
C10_SummaryInDiscoveryOrder ==
    SummaryPrinted =>
        /\ \A i \in 1..Len(t_summary) :
              \E k \in 1..Len(t_files) : t_files[k] = t_summary[i].file
        /\ \A i, j \in 1..Len(t_summary) :
              i < j => PosIn(t_files, t_summary[i].file) < PosIn(t_files, t_summary[j].file)

\* Two inputs, listed as input 2 then input 1, settled in reverse order.
C10_Witness ==
    /\ SummaryPrinted
    /\ Len(t_summary) = 2
    /\ t_files[1][1].n = 2
    /\ t_summary[1].file = t_files[1]
    /\ t_order = <<2, 1>>

\* C11: in directory mode an execution is started on every .json entry of
\* the listing, a rejected execution leaves the others running, and the
\* invocation ends only once every execution has settled, with the summary
\* of all of them.
C11_EveryInputRunsToSettlement ==
    t_stats = "dir" /\ t_execs # <<>> =>
        /\ t_execs = JsonFiles(t_files)
        /\ Len(t_results) = Len(t_execs)
        /\ (\E i \in 1..Len(t_results) : t_results[i] = "pending") =>
              t_pc = "running" /\ t_summary = <<>> /\ t_exit = -1
        /\ t_pc = "exited" =>
              /\ \A i \in 1..Len(t_results) : t_results[i] # "pending"
              /\ Len(t_summary) = Len(t_execs)
              /\ t_err = "none"

\* The first input was rejected first; the second went on and passed.
C11_Witness ==
    /\ SummaryPrinted
    /\ t_order = <<1, 2>>
    /\ t_results = <<"rejected", "fulfilled">>
    /\ Len(t_summary) = 2

\* C12: while the handler waits, an execution has been started on every
\* .json entry; none is held back until another one has settled, so the
\* executions may settle in any order.
C12_AllStartedBeforeWaiting ==
    /\ t_pc = "running" =>
          /\ t_execs = JsonFiles(t_files)
          /\ Len(t_order) <= Len(t_execs)
    /\ t_stats = "dir" /\ t_order # <<>> =>
          /\ Len(t_execs) = Len(JsonFiles(t_files))
          /\ \A k \in 1..Len(t_order) : t_order[k] \in 1..Len(t_execs)

\* The execution started last has settled while the first is still running.
C12_Witness ==
    /\ t_pc = "running"
    /\ Len(t_execs) = 2
    /\ t_order = <<2>>
    /\ t_results[1] = "pending"

\* Every check script spawned so far has ended with status 0.
ChecksPassed ==
    /\ Len(t_codes) = Len(t_spawned)
    /\ \A i \in 1..Len(t_codes) : t_codes[i] = 0

\* C13: a directory run whose target was resolved, whose check scripts
\* passed and whose directory was listed ends with status 0, whatever the
\* executions did; a rejected execution shows as a Failed line only.
C13_BatchExitsZero ==
    /\ t_pc = "exited"
    /\ t_stats = "dir"
    /\ t_target # "none"
    /\ ChecksPassed
    /\ t_err # "readdir"
    => /\ t_exit = 0
       /\ t_err = "none"
       /\ \A i \in 1..Len(t_results) :
             t_results[i] = "rejected" <=> t_summary[i].status = "Failed"

\* Both executions of a directory run were rejected.
C13_Witness ==
    /\ SummaryPrinted
    /\ t_results = <<"rejected", "rejected">>
    /\ t_summary[1].status = "Failed"
    /\ t_summary[2].status = "Failed"

\* C14: once a check script of `test` has ended with a non-zero status the
\* invocation is over with a non-zero exit status, no execution was
\* started and no summary was printed.
C14_FailedCheckIsFatal ==
    (\E i \in 1..Len(t_codes) : t_codes[i] # 0) =>
        /\ t_pc = "exited"
        /\ t_exit > 0
        /\ t_err \in {"check_cli", "check_wasm"}
        /\ t_execs = <<>>
        /\ t_summary = <<>>
        /\ ~Did(t_inputOps, "readdir")

\* check_cli.sh passed and check_wasm.sh failed, on a directory.
C14_Witness ==
    /\ t_codes = <<0, 1>>
    /\ t_stats = "dir"
    /\ t_exit = 1

\* C15: check_wasm.sh has been spawned exactly when the target was resolved
\* to wasm; check_cli.sh has been spawned whichever target was resolved,
\* and before check_wasm.sh.
C15_WasmCheckIffWasmTarget ==
    /\ Did(t_spawned, "check_wasm.sh") <=> t_target = "wasm"
    /\ t_target \in Targets => t_spawned[1] = "check_cli.sh"
    /\ t_target = "node" => t_spawned = <<"check_cli.sh">>
    /\ t_target = "wasm" => t_spawned = <<"check_cli.sh", "check_wasm.sh">>

\* A wasm run of a single input file, both checks passed.
C15_Witness ==
    /\ t_target = "wasm"
    /\ t_pc = "single"
    /\ t_codes = <<0, 0>>

\* A build invocation ended on a precondition failure: the system check
\* failed, or the wrapper template of its target is missing.
BuildPreconditionFailure ==
    /\ b_pc = "exited"
    /\ \/ b_outcome = "syscheck"
       \/ /\ b_outcome = "inject"
          /\ WrapperTemplatePath(b_argv.target) \notin DOMAIN b_before.files

\* A test invocation ended on a precondition failure: a check script
\* failed, or no artifact was found.
TestPreconditionFailure ==
    /\ t_pc = "exited"
    /\ t_err \in {"check_cli", "check_wasm", "No build artifacts found."}

\* C16: a precondition failure ends the invocation with a non-zero exit
\* status, in `build` as in `test`.
C16_PreconditionFailureExitsNonZero ==
    /\ BuildPreconditionFailure => b_exit > 0
    /\ TestPreconditionFailure => t_exit > 0

\* C17: a build invocation without a contract file ends with a non-zero
\* exit status, whether the system check passed or failed.
C17_NoFileExitsNonZero ==
    b_pc = "exited" /\ b_argv.file = <<>> => b_exit > 0

\* The files injectFileInWrapper may write: those under build/lib/.
BuildLibFiles ==
    {NodeWrapperJs, WasmWrapperJs, VersatusJs}

\* The files injectFileInWrapper reads or names: the templates, the helpers
\* and the user's contract sources.
SourceFiles ==
    {WrapperTemplatePath("node"), WrapperTemplatePath("wasm"), HelpersPath,
     ContractJs, ContractTs}

\* Path p is not what it was when the build invocation started: created,
\* removed, or holding another text.
Differs(p) ==
    \/ (p \in DOMAIN files) # (p \in DOMAIN b_before.files)
    \/ /\ p \in DOMAIN files
       /\ p \in DOMAIN b_before.files
       /\ files[p] # b_before.files[p]

\* C18 as stated: an invocation that ran the injection has changed at most
\* one file under build/lib/ and none of the templates, helpers and
\* contract sources.
C18_InjectionWritesOneFile ==
    Started("WRAP_INJECT") =>
        /\ Cardinality({p \in BuildLibFiles : Differs(p)}) <= 1
        /\ \A p \in SourceFiles : ~Differs(p)

\* C18: an invocation that ran the injection has changed, under
\* build/lib/, nothing but node-wrapper.js for node, and nothing but
\* wasm-wrapper.js and the copy versatus.js of the helpers for wasm; the
\* templates, the helpers and the contract sources are what they were.
C18_InjectionWritesWrapperAndHelpers ==
    Started("WRAP_INJECT") =>
        /\ {p \in BuildLibFiles : Differs(p)} \subseteq
              (IF b_argv.target = "node" THEN {NodeWrapperJs}
               ELSE {WasmWrapperJs, VersatusJs})
        /\ \A p \in SourceFiles : ~Differs(p)

\* A wasm injection into an empty build/ has written the wrapper and the
\* copy of the helpers, next to an untouched contract source.
C18_Witness ==
    /\ b_argv.target = "wasm"
    /\ b_pc = "bundle"
    /\ Differs(WasmWrapperJs)
    /\ Differs(VersatusJs)
    /\ files[WasmWrapperJs] = b_content
    /\ ContractJs \in DOMAIN files

\* C19: once the wrapper of a node build has been written, each of its
\* contract imports names ./dist/example-contract.js and no import names
\* the path given to the build.
C19_NodeImportIsFixed ==
    b_argv.target = "node" /\ Started("BUNDLE") =>
        LET w == files[NodeWrapperJs]
        IN  \A i \in 1..Len(w) :
               /\ MatchStart(w[i]) =>
                     w[i].path = <<"./dist/", "example-contract", ".js">>
               /\ w[i].path # ResolvedFile(b_argv.file)

\* A node build of the TypeScript contract has finished; the wrapper holds
\* a contract import.
C19_Witness ==
    /\ b_argv.target = "node"
    /\ b_argv.file = <<"example-contract", ".ts">>
    /\ b_outcome = "ok"
    /\ \E i \in 1..Len(files[NodeWrapperJs]) :
          /\ MatchStart(files[NodeWrapperJs][i])
          /\ files[NodeWrapperJs][i].path = <<"./dist/", "example-contract", ".js">>

\* The file of the project directory an absolute path names.
FileOf(p) ==
    IF p = versatusWrapperFilePath THEN VersatusJs
    ELSE IF p = ResolvedFile(<<"example-contract", ".js">>) THEN ContractJs
    ELSE IF p = ResolvedFile(<<"example-contract", ".ts">>) THEN ContractTs
    ELSE "none"

\* C20: once the wrapper of a wasm build has been written, its contract
\* import names the path given to the build and its other imports name
\* files that exist; the wrapper content of a node build differs from the
\* template in its contract import only.
C20_WasmImportsNameExistingFiles ==
    /\ b_argv.target = "wasm" /\ Started("BUNDLE") =>
          LET w == files[WasmWrapperJs]
          IN  \A i \in 1..Len(w) :
                 /\ MatchStart(w[i]) => w[i].path = ResolvedFile(b_argv.file)
                 /\ w[i].k = "from" /\ ~MatchStart(w[i]) =>
                       FileOf(w[i].path) \in DOMAIN files
    /\ b_argv.target = "node" /\ b_pc = "bundle" =>
          LET tpl == files[WrapperTemplatePath("node")]
          IN  /\ Len(b_content) = Len(tpl)
              /\ \A i \in 1..Len(tpl) : ~MatchStart(tpl[i]) => b_content[i] = tpl[i]

\* The wrapper file injectFileInWrapper writes for the target of the build.
DistWrapper ==
    IF b_argv.target = "node" THEN NodeWrapperJs ELSE WasmWrapperJs

\* C23: when the wrapper template of the target is missing, or the write
\* of the wrapper fails, the injection is rejected: the build ends there
\* and the bundler is never started.  The bundler runs only on a wrapper
\* that was written in full.
C23_InjectionFailurePropagates ==
    /\ Started("WRAP_INJECT")
       /\ WrapperTemplatePath(b_argv.target) \notin DOMAIN b_before.files
       => b_outcome = "inject" /\ b_content = <<>>
    /\ b_outcome = "inject" =>
          /\ b_pc = "exited"
          /\ ~Started("BUNDLE")
          /\ b_promise = "none"
    /\ Started("BUNDLE") /\ b_pc = "bundle" =>
          /\ DistWrapper \in DOMAIN files
          /\ files[DistWrapper] = b_content

\* The write of the wrapper failed and left a truncated file; the template
\* was there.
C23_Witness ==
    /\ b_outcome = "inject"
    /\ WrapperTemplatePath(b_argv.target) \in DOMAIN files
    /\ DistWrapper \in DOMAIN files
    /\ files[DistWrapper] = <<>>

\* C24: the compiler has been started exactly when the target is wasm and
\* the bundler has ended without error; a node build never starts it and
\* leaves build/build.wasm as it was.
C24_CompileIffWasmAndBundled ==
    /\ Started("COMPILE") <=>
          /\ b_argv.target = "wasm"
          /\ Started("BUNDLE")
          /\ b_pc # "bundle"
          /\ b_outcome # "bundle"
    /\ b_argv.target = "node" => ~Started("COMPILE") /\ ~Differs(BuildWasm)
    /\ Differs(BuildWasm) => b_argv.target = "wasm" /\ b_outcome = "ok"

\* The compiler of a wasm build is running on the bundle.
C24_Witness ==
    /\ b_argv.target = "wasm"
    /\ b_pc = "compile"
    /\ b_active = {"COMPILE"}
    /\ BundleJs \in DOMAIN files

\* C25: the promise of runBuildProcess is settled only when neither the
\* bundler nor the compiler is running or still to be started.
C25_PromiseSettlesAfterChildren ==
    b_promise = "fulfilled" =>
        /\ b_active \cap {"BUNDLE", "COMPILE"} = {}
        /\ b_pc = "exited"

C28_SingleFileRunsOnce ==
    t_stats = "file" =>
        /\ t_summary = <<>>
        /\ t_results = <<>>
        /\ ~Did(t_inputOps, "readdir")
        /\ Len(t_execs) <= 1
        /\ t_execs # <<>> =>
              /\ t_execs = << <<Tok("inputPath")>> >>
              /\ Len(t_runs) = 1
              /\ t_pc \in {"single", "exited"}
              /\ t_pc = "exited" =>
                    IF t_runs[1].stdout = "json"
                    THEN t_exit = 0 /\ t_err = "none"
                    ELSE t_exit > 0 /\ t_err = "testFailed"

\* The module threw on the single input file and the invocation ended
\* with status 1.
C28_Witness ==
    /\ t_stats = "file"
    /\ t_pc = "exited"
    /\ Len(t_runs) = 1
    /\ t_runs[1].threw
    /\ t_exit = 1

\* The name is a non-empty stem followed by the suffix .json.
HasJsonSuffix(name) ==
    /\ Len(name) >= 3
    /\ name[Len(name) - 1] = Tok(".")
    /\ name[Len(name)] = Tok("json")

\* C29: in directory mode, once the directory has been listed, each entry
\* named <stem>.json is the input of exactly one execution, and nothing
\* else is executed or named in the summary.
C29_ExactlyTheJsonEntries ==
    t_stats = "dir" /\ t_pc \in {"running", "exited"} /\ t_err # "readdir"
    /\ Did(t_inputOps, "readdir") =>
        /\ \A k \in 1..Len(t_files) :
              Cardinality({i \in 1..Len(t_execs) : t_execs[i] = t_files[k]})
                 = IF HasJsonSuffix(t_files[k]) THEN 1 ELSE 0
        /\ \A i \in 1..Len(t_execs) :
              \E k \in 1..Len(t_files) : t_files[k] = t_execs[i]
        /\ \A i \in 1..Len(t_summary) :
              /\ HasJsonSuffix(t_summary[i].file)
              /\ \E k \in 1..Len(t_files) : t_files[k] = t_summary[i].file

\* The listing holds a .json entry and the dot-file `.json`; only the
\* first was executed.
C29_Witness ==
    /\ SummaryPrinted
    /\ Len(t_files) = 2
    /\ \E k \in 1..2 : t_files[k] = <<Tok("."), Tok("json")>>
    /\ Len(t_execs) = 1
    /\ Len(t_summary) = 1

\* The import lines of a wrapper text, in order.
IsImportLine(l) ==
    l.k = "from"

ImportLines(text) ==
    SelectSeq(text, IsImportLine)

\* The invocation before this one was given the same file and target and
\* got as far as writing its wrapper.
RepeatedBuild ==
    /\ b_count >= 2
    /\ b_before.argv = b_argv
    /\ b_before.outcome \in {"ok", "bundle", "compile"}

\* C22: when a build repeats the build before it, the wrapper it writes
\* has the import lines of the wrapper the first one left.
C22_InjectionIsIdempotent ==
    RepeatedBuild /\ Started("BUNDLE") =>
        /\ b_before.content # <<>>
        /\ ImportLines(b_content) = ImportLines(b_before.content)
        /\ b_pc = "bundle" => ImportLines(files[DistWrapper]) = ImportLines(b_before.content)

\* A wasm build repeated: the second wrapper has been written over the
\* first and holds two import lines.
C22_Witness ==
    /\ RepeatedBuild
    /\ b_argv.target = "wasm"
    /\ b_pc = "bundle"
    /\ files[WasmWrapperJs] = b_content
    /\ Len(ImportLines(b_content)) = 2

\* The template the injection of this build reads.
TemplateText ==
    files[WrapperTemplatePath(b_argv.target)]

\* The lines at which the written wrapper content differs from the template.
RewrittenLines ==
    {i \in 1..Len(TemplateText) : b_content[i] # TemplateText[i]}

\* The line the contract substitution may rewrite: the first one matching
\* the contract import pattern.
FirstStartLine ==
    {i \in 1..Len(TemplateText) :
        /\ MatchStart(TemplateText[i])
        /\ \A j \in 1..(i - 1) : ~MatchStart(TemplateText[j])}

\* The line the helpers substitution may rewrite: the first one matching
\* the helpers import pattern once the contract substitution has been made.
FirstHelpersLine ==
    LET left == {i \in 1..Len(TemplateText) :
                    MatchVersatus(TemplateText[i]) /\ i \notin FirstStartLine}
    IN  {i \in left : \A j \in left : i <= j}

\* C21: the wrapper content has the lines of the template except, at most,
\* the first line matching the contract import pattern and, for wasm, the
\* first line matching the helpers import pattern; a template without a
\* matching line is written as it is, and the injection goes on to the
\* write without an error.
C21_AtMostOneLinePerSubstitution ==
    Started("WRAP_INJECT") =>
        /\ b_pc # "exited" \/ b_outcome # "inject" => Len(b_content) = Len(TemplateText)
        /\ b_content # <<>> =>
              /\ Len(b_content) = Len(TemplateText)
              /\ RewrittenLines \subseteq
                    (IF b_argv.target = "node" THEN FirstStartLine
                     ELSE FirstStartLine \cup FirstHelpersLine)
              /\ Cardinality(RewrittenLines)
                    <= (IF b_argv.target = "node" THEN 1 ELSE 2)
              /\ FirstStartLine = {} /\ FirstHelpersLine = {} => b_content = TemplateText
        /\ b_pc = "bundle" => files[DistWrapper] = b_content

\* A template with two contract imports: the first was rewritten, the
\* second is in the written wrapper as the template has it.
C21_Witness ==
    /\ b_pc = "bundle"
    /\ Len(TemplateText) = 3
    /\ MatchStart(TemplateText[1])
    /\ MatchStart(TemplateText[3])
    /\ RewrittenLines = {1}
    /\ files[DistWrapper][3] = TemplateText[3]

HarnessWindow ==
    /\ b_pc = "inject"
    /\ b_argv.target = "node"
    /\ b_other.pc = "idle"
    /\ t_pc = "check_cli"
    /\ t_stats = "file"

\* A wasm build has started its bundler, and since it wrote its wrapper
\* the other wasm build has written a different one in its place.
BundlerWindow ==
    /\ b_pc = "bundle"
    /\ b_argv.target = "wasm"
    /\ b_other.argv.target = "wasm"
    /\ b_other.pc = "bundle"
    /\ b_other.content # b_content
    /\ files[WasmWrapperJs] = b_other.content

\* The bundler of a wasm build has bundled the wrapper written by the
\* other build, whose own bundler has not ended yet.
BundlerConsumedOtherWrapper ==
    /\ b_pc = "compile"
    /\ b_argv.target = "wasm"
    /\ b_other.argv.target = "wasm"
    /\ b_other.pc = "bundle"
    /\ b_other.content # b_content
    /\ files[BundleJs] = Bundled(b_other.content)

\* C30: nothing locks build/.  A test invocation and a build invocation
\* can start whatever the other invocations on the project directory are
\* doing; while a node build stands between the copy of the template and
\* the rewrite, the test harness can select the node target and start
\* the execution with build/lib/node-wrapper.js left as it is; and a wasm
\* build whose wrapper was overwritten by another build can bundle the
\* other build's wrapper.
C30_NoLockOnBuildDir ==
    /\ t_pc = "idle" => ENABLED OverlapTest
    /\ (b_pc = "idle" /\ b_count = 0) => ENABLED OverlapBuild
    /\ HarnessWindow =>
          /\ files[NodeWrapperJs] = files[WrapperTemplatePath("node")]
          /\ ENABLED (/\ CheckCliExit(0)
                      /\ t_target' = "node"
                      /\ t_pc' = "single")
    /\ BundlerWindow =>
          ENABLED (/\ WebpackExit(FALSE)
                   /\ files'[BundleJs] = Bundled(b_other.content))

\* The test harness has selected the node target and started the execution
\* while build/lib/node-wrapper.js, which only the running build has
\* written, holds the template and not the rewritten wrapper.
C30_Witness ==
    /\ t_pc = "single"
    /\ t_target = "node"
    /\ Len(t_execs) = 1
    /\ b_pc = "inject"
    /\ b_argv.target = "node"
    /\ b_other.pc = "idle"
    /\ NodeWrapperJs \notin DOMAIN b_before.files
    /\ files[NodeWrapperJs] = files[WrapperTemplatePath("node")]
    /\ files[NodeWrapperJs] # b_content
----------------------------------------------------------------------------
(* Properties of the node wrapper.                                         *)

\* C31: the node wrapper calls start at most once, only after stdin has
\* ended with every chunk accumulated in data, and only with the value
\* JSON.parse made of the whole input; when parsing fails or start throws,
\* nothing is written to stdout, the exception is reported on stderr and
\* the process ends with status 0.
C31_StartOnceAfterEnd ==
    /\ Len(w_calls) <= 1
    /\ w_calls # <<>> =>
          /\ w_pc = "exited"
          /\ w_in = <<>>
          /\ w_data = Flatten(w_sent)
          /\ JsonParse(Flatten(w_sent)).t # "SyntaxError"
          /\ w_calls[1].arg = JsonParse(Flatten(w_sent))
    /\ (w_pc = "exited" /\ (w_calls = <<>> \/ w_calls[1].threw)) =>
          /\ w_out = <<>>
          /\ w_err = <<"Failed to parse JSON input:">>
          /\ w_exit = 0
    /\ w_pc = "reading" => (w_calls = <<>> /\ w_out = <<>> /\ w_exit = -1)

\* The input came in two chunks, start was called on it and threw.
C31_Witness ==
    /\ w_pc = "exited"
    /\ Len(w_sent) = 2
    /\ Len(w_calls) = 1
    /\ w_calls[1].threw
    /\ w_calls[1].arg.t = "number"
    /\ w_calls[1].arg.v = 11
    /\ w_err # <<>>
----------------------------------------------------------------------------
(* Properties of the faucet program.                                       *)

\* The calls of a method made so far, as indices of f_calls.
CallsOf(method) ==
    {i \in 1..Len(f_calls) : f_calls[i].method = method}

\* The call returned instructions.
Succeeded(call) ==
    call.result.error = "none"

\* The call threw: it emitted no instruction.
Threw(call) ==
    /\ call.result.error # "none"
    /\ call.result.instructions = <<>>

\* The account data has no programs map: create has not been applied.
NoPrograms(data) ==
    \/ ~Truthy(data)
    \/ ~Truthy(Get(data, "programs"))

\* The programs map of account data that has one.
ProgramsOf(data) ==
    Parse(Get(data, "programs"))

\* The program has an entry in the programs map of the account data.
Supported(data, program) ==
    /\ ~NoPrograms(data)
    /\ Truthy(Get(ProgramsOf(data), program))

\* The entry of a supported program.
EntryOf(data, program) ==
    Parse(Get(ProgramsOf(data), program))

\* The faucet cannot serve the program from this account data: the data,
\* the programs map, the program's entry, its pipeData or its recipients
\* is missing.
NotReady(data, program) ==
    \/ ~Supported(data, program)
    \/ ~Truthy(Get(EntryOf(data, program), "pipeData"))
    \/ ~Truthy(Get(EntryOf(data, program), "recipients"))

\* C35: addProgram throws, emitting no instruction, when amountToAdd is
\* missing or zero or the account data has no programs; faucet throws,
\* emitting no instruction, when the account data, the programs map, the
\* requested program's entry, its pipeData or its recipients is missing.
C35_NotReadyThrows ==
    /\ \A i \in CallsOf("addProgram") :
          (f_calls[i].amount = 0 \/ NoPrograms(f_calls[i].data)) => Threw(f_calls[i])
    /\ \A i \in CallsOf("faucet") :
          NotReady(f_calls[i].data, f_calls[i].program) => Threw(f_calls[i])

\* A claim succeeded, a second one found the entry without pipeData and
\* threw, and an addProgram without an amount threw.
C35_Witness ==
    /\ Len(f_calls) = 3
    /\ f_calls[1].method = "faucet" /\ Succeeded(f_calls[1])
    /\ f_calls[2].method = "faucet"
    /\ f_calls[2].result.error = "Faucet pipeData not found"
    /\ f_calls[3].method = "addProgram" /\ f_calls[3].amount = 0
    /\ f_calls[3].result.error = "Please specify how much your adding to the faucet pool"

\* C34: addProgram for a program already in the programs map emits the
\* transfer to the faucet and nothing else; for a program not in it, the
\* transfer and one data update whose programs map holds every program
\* that was there, unchanged, and the new program with its pipeData and
\* empty recipients.
C34_AddProgramKeepsPrograms ==
    \A i \in CallsOf("addProgram") :
        Succeeded(f_calls[i]) =>
            LET call == f_calls[i]
                out  == call.result.instructions
                old  == ProgramsOf(call.data)
            IN  /\ out[1].kind = "transfer"
                /\ out[1].to = "this"
                /\ out[1].token = call.program
                /\ IF call.program \in DOMAIN old.v
                   THEN Len(out) = 1
                   ELSE /\ Len(out) = 2
                        /\ out[2].kind = "update"
                        /\ LET new == Parse(Get(Parse(out[2].value), "programs"))
                           IN  /\ DOMAIN new.v = DOMAIN old.v \cup {call.program}
                               /\ \A q \in DOMAIN old.v : new.v[q] = old.v[q]
                               /\ Get(Parse(new.v[call.program]), "recipients")
                                     = Stringify(EmptyObj)
                               /\ Truthy(Get(Parse(new.v[call.program]), "pipeData"))

\* addProgram was called for a program the faucet had and then for one it
\* had not, next to the first.
C34_Witness ==
    /\ Len(f_calls) >= 2
    /\ f_calls[1].method = "addProgram" /\ f_calls[1].program = "P1"
    /\ Len(f_calls[1].result.instructions) = 1
    /\ f_calls[2].method = "addProgram" /\ f_calls[2].program = "P2"
    /\ Len(f_calls[2].result.instructions) = 2
    /\ Supported(f_calls[2].data, "P1")
\* The data update a successful faucet call emitted.
ClaimUpdate(call) ==
    call.result.instructions[2].value

\* cycleTimeMin of the program as addProgram stored it, 1 when it stored
\* none.
StoredCycleTimeMin(data, program) ==
    OrDefault(Get(Parse(Get(EntryOf(data, program), "pipeData")), "cycleTimeMin"),
              Num(1)).v

\* C33: the data update of a successful faucet claim, once applied, leaves
\* every program the faucet supported in the programs map, the entries of
\* the other programs and the pipeData of the requested one as they were;
\* and a later faucet call for a program that was supported is not refused
\* for missing data.
C33_ClaimKeepsOtherData ==
    /\ \A i \in CallsOf("faucet") :
          Succeeded(f_calls[i]) =>
              LET call  == f_calls[i]
                  after == ApplyExtend(call.data, ClaimUpdate(call))
              IN  \A q \in DOMAIN ProgramsOf(call.data).v :
                      /\ Supported(after, q)
                      /\ q # call.program =>
                            Get(ProgramsOf(after), q) = Get(ProgramsOf(call.data), q)
                      /\ q = call.program =>
                            Get(EntryOf(after, q), "pipeData")
                               = Get(EntryOf(call.data, q), "pipeData")
    /\ \A i, j \in CallsOf("faucet") :
          (/\ i < j
           /\ Succeeded(f_calls[i])
           /\ i \in f_calls[j].applied
           /\ ~NotReady(f_calls[i].data, f_calls[j].program))
          => f_calls[j].result.error \in {"none", "Too soon to claim tokens."}

\* C32: a faucet call by a recipient for a program, made less than
\* cycleTimeMin minutes after a successful one by the same recipient for
\* the same program whose data update has been applied, throws 'Too soon
\* to claim tokens.' and emits no instruction; a recipient without a
\* recorded claim time, on a faucet that is ready for the program, gets
\* its transfer.
C32_RateLimit ==
    /\ \A i, j \in CallsOf("faucet") :
          (/\ i < j
           /\ Succeeded(f_calls[i])
           /\ i \in f_calls[j].applied
           /\ f_calls[j].to = f_calls[i].to
           /\ f_calls[j].program = f_calls[i].program
           /\ f_calls[j].time - f_calls[i].time
                 < 60 * 1000 * StoredCycleTimeMin(f_calls[i].data, f_calls[i].program))
          => /\ f_calls[j].result.error = "Too soon to claim tokens."
             /\ f_calls[j].result.instructions = <<>>
    /\ \A j \in CallsOf("faucet") :
          (/\ ~NotReady(f_calls[j].data, f_calls[j].program)
           /\ ~Truthy(Get(Parse(Get(EntryOf(f_calls[j].data, f_calls[j].program),
                                     "recipients")), f_calls[j].to)))
          => /\ Succeeded(f_calls[j])
             /\ f_calls[j].result.instructions[1].kind = "transfer"
----------------------------------------------------------------------------
(* Properties of the deploy command.                                       *)

\* The steps of a deployment, in their order.
DeploySteps ==
    <<"publish", "register", "create">>

\* The step that ended as the i-th failed: its promise was rejected, or no
\* CID, respectively no program address, is found in what it returned.
StepFailed(i) ==
    \/ ~d_output[i].ok
    \/ /\ d_output[i].step = "publish"
       /\ \A k \in 1..Len(d_output[i].out) :
             ~(d_output[i].out[k].pre = "bafy" /\ d_output[i].out[k].n >= CidMinLen)
    \/ /\ d_output[i].step = "register"
       /\ \A k \in 1..Len(d_output[i].out) :
             ~(d_output[i].out[k].pre = "program_address"
               /\ d_output[i].out[k].n = AddressLen)

\* The success message has been printed.
SuccessPrinted ==
    \E k \in 1..Len(d_printed) : d_printed[k] = "Program created successfully."

\* C36: deploy starts publish, register and create in that order, each
\* once the one before it has ended and its result was extracted (a CID
\* of the publish output, a program address of the register response);
\* after a step that failed no step is started and the success message
\* is not printed.
C36_DeployStepsInOrder ==
    /\ Len(d_log) <= Len(DeploySteps)
    /\ \A i \in 1..Len(d_log) : d_log[i] = DeploySteps[i]
    /\ Len(d_output) <= Len(d_log)
    /\ Len(d_log) <= Len(d_output) + 1
    /\ \A i \in 1..Len(d_output) : d_output[i].step = d_log[i]
    /\ Len(d_log) >= 2 =>
          /\ d_cid.pre = "bafy"
          /\ d_cid.n >= CidMinLen /\ d_cid.n <= CidMaxLen
          /\ \E k \in 1..Len(d_output[1].out) :
                d_output[1].out[k].pre = "bafy" /\ d_output[1].out[k].n >= d_cid.n
    /\ Len(d_log) >= 3 =>
          /\ d_address.pre = "program_address"
          /\ d_address.n = AddressLen
          /\ \E k \in 1..Len(d_output[2].out) : d_output[2].out[k] = d_address
    /\ \A i \in 1..Len(d_output) :
          StepFailed(i) => (Len(d_log) = i /\ d_pc = "exited" /\ ~SuccessPrinted)
    /\ SuccessPrinted =>
          (Len(d_output) = 3 /\ \A i \in 1..3 : ~StepFailed(i))

\* Publish returned a CID and register a response without a program
\* address: the invocation ended without starting create.
C36_Witness ==
    /\ d_pc = "exited"
    /\ d_log = <<"publish", "register">>
    /\ Len(d_output) = 2
    /\ d_output[2].ok
    /\ Len(d_output[2].out) = 2
    /\ StepFailed(2)
    /\ d_cid.n = CidMaxLen
    /\ d_printed[Len(d_printed)] = "Deployment error"

====
